---- MODULE Spec2Model ----
(***************************************************************************)
(* A model of the histogram-and-fit engine of DigiCamCommissioning:        *)
(* utils/histogram.py (class Histogram), the charge-spectrum strategy of   *)
(* spectra_fit/fit_low_light.py and the persistence of a Histogram in an   *)
(* npz archive.                                                            *)
(*                                                                         *)
(* Conventions.                                                            *)
(*  - A numpy array is a function on 0..n-1 (numpy's own indices).         *)
(*  - The slot shape (data_shape) is one-dimensional: data has shape       *)
(*    (NSlots, N).                                                         *)
(*  - Axis coordinates and sample values are integers counting HALF units: *)
(*    the float x is held as 2*x, so that bin_center - bin_width/2 is      *)
(*    exact for every integer bin_width.                                   *)
(*  - errors holds square roots: the float sqrt(r) is held as its          *)
(*    radicand r (sqrt(0) = 0 is held as 0, the float 1.0 as 1).           *)
(*  - A float of the fit results is a record: NaN, Num(n) or a value       *)
(*    Opt(o, j) handed back by the optimizer.                              *)
(***************************************************************************)
EXTENDS Integers, Sequences, FiniteSets, TLC

VARIABLES
    hist,      \* the Histogram object: a record of its attributes
    files,     \* the file system: the archives written so far, by file name
    call,      \* the last call made on the object, its arguments and outcome
    fit,       \* the frame of a running Histogram.fit: position and locals
    ncalls,    \* number of calls made so far (bounds the run)
    history    \* history: the samples handed to fill so far, per slot and bin
               \* (given: all of them, single: those of one-sample calls)

vars == <<hist, files, call, fit, ncalls, history>>

(***************************************************************************)
(* Bounds of the model.                                                    *)
(***************************************************************************)
MaxCalls == 2      \* calls made on one store in a run
MaxSpan == 5       \* largest bin_center_max - bin_center_min of a constructor call
MaxWidth == 3      \* largest |bin_width| of a constructor call

(***************************************************************************)
(* Arrays.                                                                 *)
(***************************************************************************)
Size(a) == Cardinality(DOMAIN a)

Empty == [i \in {} |-> 0]

Zeros(n) == [i \in 0..(n - 1) |-> 0]

Zeros2(m, n) == [s \in 0..(m - 1) |-> Zeros(n)]

RECURSIVE SumTo(_, _)
SumTo(a, n) == IF n = 0 THEN 0 ELSE a[n - 1] + SumTo(a, n - 1)

\* np.sum over a one-dimensional array
Sum(a) == SumTo(a, Size(a))

\* the values of the sequence q
Values(q) == {q[i] : i \in 1..Len(q)}

\* number of entries of the sequence q that lie in the set S
CountSeq(q, S) == Cardinality({i \in 1..Len(q) : q[i] \in S})

CeilDiv(a, b) == -((-a) \div b)

\* np.arange(start, stop, step): ceil((stop - start) / step) values, none
\* when the step leads away from stop (a zero step raises: ArangeRaises)
Arange(start, stop, step) ==
    IF step > 0 /\ stop > start
    THEN [i \in 0..(CeilDiv(stop - start, step) - 1) |-> start + i * step]
    ELSE IF step < 0 /\ stop < start
    THEN [i \in 0..(CeilDiv(start - stop, -step) - 1) |-> start + i * step]
    ELSE Empty

\* np.arange with a zero step divides by it: ZeroDivisionError for Python
\* numbers, ValueError (maximum allowed size exceeded) for numpy scalars
ArangeRaises(step) ==
    IF step = 0 THEN {"ZeroDivisionError", "ValueError"} ELSE {"none"}

(***************************************************************************)
(* Python values of the fit attributes.                                    *)
(***************************************************************************)
None == [kind |-> "None"]

\* a zero-dimensional object array that wraps None: np.copy(file[key]) of a
\* key that was saved as None
NoneArray == [kind |-> "ndarray", shape |-> "()"]

\* an attribute that was never assigned (reading it is an AttributeError)
Unset == [kind |-> "unset"]

NdArray(a) == [kind |-> "ndarray", shape |-> "array", a |-> a]

NaN == [f |-> "nan"]

Num(n) == [f |-> "num", n |-> n]

Opt(o, j) == [f |-> "opt", o |-> o, j |-> j]

(***************************************************************************)
(* Histogram.__init__: the axis and the empty store.                       *)
(***************************************************************************)
\* mutant: the centers stop before bin_center_max
AxisFromRangeShortCenters(bin_center_min, bin_center_max, bin_width) ==
    [bin_width   |-> 2 * bin_width,
     bin_edges   |-> Arange(2 * bin_center_min - bin_width,
                            2 * bin_center_max + bin_width + 2,
                            2 * bin_width),
     bin_centers |-> Arange(2 * bin_center_min, 2 * bin_center_max,
                            2 * bin_width)]

\* the axis generated from (bin_center_min, bin_center_max, bin_width),
\* given in whole units
AxisFromRange(bin_center_min, bin_center_max, bin_width) ==
    [bin_width   |-> 2 * bin_width,
     bin_edges   |-> Arange(2 * bin_center_min - bin_width,
                            2 * bin_center_max + bin_width + 2,
                            2 * bin_width),
     bin_centers |-> Arange(2 * bin_center_min, 2 * bin_center_max + 2,
                            2 * bin_width)]

\* mutant: the floor of 1 on empty bins is left out
ComputedErrorsNoFloor(data) ==
    [s \in DOMAIN data |-> [b \in DOMAIN data[s] |-> data[s][b]]]

\* self.errors = np.sqrt(self.data); self.errors[self.errors == 0.] = 1.
ComputedErrors(data) ==
    [s \in DOMAIN data |->
        [b \in DOMAIN data[s] |-> IF data[s][b] = 0 THEN 1 ELSE data[s][b]]]

FitAttributesNone ==
    [fit_result        |-> None,
     fit_result_label  |-> None,
     fit_chi2_ndof     |-> None,
     fit_function      |-> None,
     fit_axis          |-> None,
     fit_function_name |-> Unset,
     xlabel            |-> "x",
     ylabel            |-> "y",
     label             |-> "hist"]

\* Histogram(data_shape=(n,), bin_center_min=.., bin_center_max=.., bin_width=..)
Create(n, axis) ==
    axis @@ FitAttributesNone @@
    [data      |-> Zeros2(n, Size(axis.bin_centers)),
     underflow |-> Zeros(n),
     overflow  |-> Zeros(n),
     errors    |-> Zeros2(n, Size(axis.bin_centers))]

\* Histogram(data=d, data_shape=(n,), ...): initialised from existing data
CreateFromData(d, axis) ==
    axis @@ FitAttributesNone @@
    [data      |-> d,
     underflow |-> Zeros(Size(d)),
     overflow  |-> Zeros(Size(d)),
     errors    |-> ComputedErrors(d)]

(***************************************************************************)
(* Inputs.                                                                 *)
(***************************************************************************)
\* data_shape of the stores of the model: (1,) and (2,)
DataShapes == {1, 2}

\* (bin_center_min, bin_center_max, bin_width) of the stores of the model
AxisRanges == {<<0, 2, 1>>, <<0, 3, 2>>}

Axes == {AxisFromRange(r[1], r[2], r[3]) : r \in AxisRanges}

LastEdge(h) == h.bin_edges[Size(h.bin_edges) - 1]

Below(h) == h.bin_edges[0] - 3

Above(h) == LastEdge(h) + 3

NoIndices == [kind |-> "None"]

\* indices = (slice(lo, hi),): a view on the slots lo..hi-1; the model hands
\* in the views on one slot
SliceIndices(n) ==
    {[kind |-> "slice", lo |-> lo, hi |-> lo + 1] : lo \in 0..(n - 1)}

Indices(n) == {NoIndices} \cup SliceIndices(n)

\* the slots that self.data[indices] views
Selected(indices, n) ==
    IF indices.kind = "None" THEN 0..(n - 1)
    ELSE {s \in 0..(n - 1) : indices.lo <= s /\ s < indices.hi}

\* the row of self.data[indices] that slot s is
RowOfSlot(indices, s) == IF indices.kind = "None" THEN s ELSE s - indices.lo

(***************************************************************************)
(* Histogram.fill                                                          *)
(***************************************************************************)
\* mutant: the fold of negative indices into bin 0 is left out, so that a
\* negative index counts from the end of the axis
HistIndexNoUnderflowFold(h, v) ==
    LET N   == Size(h.data[0])
        raw == (v - h.bin_edges[0]) \div h.bin_width
    IN  IF raw > N - 1 THEN N - 1 ELSE raw % N

\* hist_indices: ((value - bin_edges[0]) // bin_width).astype(int), then
\* folded into 0..N-1
HistIndex(h, v) ==
    LET N   == Size(h.data[0])
        raw == (v - h.bin_edges[0]) \div h.bin_width
    IN  IF raw > N - 1 THEN N - 1 ELSE IF raw < 0 THEN 0 ELSE raw

\* value: [rank |-> 1, a |-> rows] of shape (n,), each row <<v>>, or
\*        [rank |-> 2, a |-> rows] of shape (n, k), each row <<v1, .., vk>>.
\* dim_indices holds one index array per axis of value, then the bin indices:
\* the indexed array must have rank(value) + 1 axes and at least as many rows
\* as value. No (row, bin) pair occurs twice in dim_indices.
FillRaises(h, value, indices) ==
    LET whole  == value.rank = 2 /\ Size(value.a) = Size(h.data)
        target == IF whole \/ indices.kind = "None"
                  THEN 0..(Size(h.data) - 1)
                  ELSE Selected(indices, Size(h.data))
    IN  IF value.rank = 2 \/ Size(value.a) > Cardinality(target)
        THEN "IndexError" ELSE "none"

\* mutant: the bin is set to one count instead of being incremented
FillDataAssigned(h, value, indices) ==
    [s \in DOMAIN h.data |->
        LET j == RowOfSlot(indices, s)
        IN  IF s \in Selected(indices, Size(h.data)) /\ j \in DOMAIN value.a
            THEN [h.data[s] EXCEPT ![HistIndex(h, value.a[j][1])] = 1]
            ELSE h.data[s]]

\* self.data[dim_indices] += 1, or self.data[indices][dim_indices] += 1
FillData(h, value, indices) ==
    [s \in DOMAIN h.data |->
        LET j == RowOfSlot(indices, s)
        IN  IF s \in Selected(indices, Size(h.data)) /\ j \in DOMAIN value.a
            THEN [h.data[s] EXCEPT ![HistIndex(h, value.a[j][1])] = @ + 1]
            ELSE h.data[s]]

Filled(h, value, indices) ==
    IF FillRaises(h, value, indices) = "none"
    THEN [h EXCEPT !.data = FillData(h, value, indices)]
    ELSE h

\* history: the samples of a fill call, counted per slot and folded bin. The
\* rows of value are the slots of the indexed array in order; a value with
\* more rows than slots names no slot for its samples and is not counted.
\* given counts every sample, single those of the calls with one sample per
\* slot (rank 1).
Counted(h, counts, value, indices) ==
    LET sel == Selected(indices, Size(h.data))
    IN  [s \in DOMAIN counts |->
            IF s \in sel /\ Size(value.a) <= Cardinality(sel)
                         /\ RowOfSlot(indices, s) \in DOMAIN value.a
            THEN [b \in DOMAIN counts[s] |->
                    LET row == value.a[RowOfSlot(indices, s)]
                        InBin == {v \in Values(row) : HistIndex(h, v) = b}
                    IN  counts[s][b] + CountSeq(row, InBin)]
            ELSE counts[s]]

Recorded(h, value, indices) ==
    [history EXCEPT
        !.given  = Counted(h, @, value, indices),
        !.single = IF value.rank = 1 THEN Counted(h, @, value, indices) ELSE @]

FillSamples(h) == {Below(h), h.bin_centers[1], Above(h)}

\* one sample per slot (for 1 up to n + 1 slots), or a row of samples per slot
FillValues(h) ==
    LET n == Size(h.data)
    IN  {[rank |-> 1, a |-> a] :
            a \in [0..(n - 1) -> {<<v>> : v \in FillSamples(h)}]}
        \cup
        {[rank |-> 1, a |-> [j \in 0..(m - 1) |-> <<h.bin_centers[0]>>]] :
            m \in {1, n + 1}}
        \cup
        {[rank |-> 2, a |-> [j \in 0..(n - 1) |-> q]] :
            q \in {<<h.bin_centers[0], h.bin_centers[0], h.bin_centers[1]>>}}

FillCall(value, indices) ==
    /\ fit.pc /= "loop"
    /\ ncalls < MaxCalls
    /\ hist' = Filled(hist, value, indices)
    /\ history' = Recorded(hist, value, indices)
    /\ call' = [op |-> "fill", value |-> value, indices |-> indices,
                raised |-> FillRaises(hist, value, indices)]
    /\ ncalls' = ncalls + 1
    /\ UNCHANGED <<files, fit>>

Fill ==
    \E value \in FillValues(hist), indices \in Indices(Size(hist.data)) :
        FillCall(value, indices)

(***************************************************************************)
(* Histogram._compute_errors                                               *)
(***************************************************************************)
ComputeErrors ==
    /\ fit.pc /= "loop"
    /\ ncalls < MaxCalls
    /\ hist' = [hist EXCEPT !.errors = ComputedErrors(hist.data)]
    /\ call' = [op |-> "_compute_errors", raised |-> "none"]
    /\ ncalls' = ncalls + 1
    /\ UNCHANGED <<files, fit, history>>

(***************************************************************************)
(* Histogram.fill_with_batch                                               *)
(***************************************************************************)
\* mutant: samples above the last edge are folded into the last bin, as fill
\* does
NpHistogramFolded(h, x) ==
    LET n == Size(h.bin_edges) - 1
    IN  [b \in 0..(n - 1) |->
            LET InBin == {v \in Values(x) :
                            /\ h.bin_edges[b] <= v
                            /\ \/ v < h.bin_edges[b + 1]
                               \/ b = n - 1}
            IN  CountSeq(x, InBin)]

\* np.histogram(x, bins=self.bin_edges)[0]: bin b counts e[b] <= v < e[b+1],
\* the last bin also counts v = e[N]
NpHistogram(h, x) ==
    LET n == Size(h.bin_edges) - 1
    IN  [b \in 0..(n - 1) |->
            LET InBin == {v \in Values(x) :
                            /\ h.bin_edges[b] <= v
                            /\ \/ v < h.bin_edges[b + 1]
                               \/ b = n - 1 /\ v = h.bin_edges[b + 1]}
            IN  CountSeq(x, InBin)]

\* np.sum(~(batch > self.bin_edges[0]), axis=-1)
TmpUnderflow(h, x) ==
    CountSeq(x, {v \in Values(x) : ~(v > h.bin_edges[0])})

\* mutant: the overflow counts the samples above the last edge
TmpOverflowAboveLastEdge(h, x) ==
    CountSeq(x, {v \in Values(x) : v > h.bin_edges[Size(h.bin_edges) - 1]})

\* np.sum(~(batch < self.bin_edges[1]), axis=-1)
TmpOverflow(h, x) ==
    CountSeq(x, {v \in Values(x) : ~(v < h.bin_edges[1])})

\* np.add(data, tmp_hist) needs one count per bin of data
BatchRaises(h, batch, indices) ==
    IF Size(h.bin_edges) - 1 /= Size(h.data[0]) THEN "ValueError" ELSE "none"

\* batch: one row of samples per slot of self.data[indices]; rows of one
\* length are a numeric array, rows of different lengths an object array, and
\* both branches add the same three quantities per row.
BatchFilled(h, batch, indices) ==
    LET sel == Selected(indices, Size(h.data))
        row(s) == batch[RowOfSlot(indices, s)]
        data == [s \in DOMAIN h.data |->
                    IF s \in sel
                    THEN [b \in DOMAIN h.data[s] |->
                            h.data[s][b] + NpHistogram(h, row(s))[b]]
                    ELSE h.data[s]]
    IN  IF BatchRaises(h, batch, indices) /= "none" THEN h
        ELSE [h EXCEPT
                !.data = data,
                !.underflow = [s \in DOMAIN @ |->
                    IF s \in sel THEN @[s] + TmpUnderflow(h, row(s)) ELSE @[s]],
                !.overflow = [s \in DOMAIN @ |->
                    IF s \in sel THEN @[s] + TmpOverflow(h, row(s)) ELSE @[s]],
                !.errors = ComputedErrors(data)]

BatchRows(h) ==
    {<<v>> : v \in {Below(h), h.bin_edges[0], h.bin_centers[0], LastEdge(h),
                    Above(h)}}
    \cup {<<h.bin_centers[0], Above(h)>>}

Batches(h, indices) ==
    [0..(Cardinality(Selected(indices, Size(h.data))) - 1) -> BatchRows(h)]

BatchCall(batch, indices) ==
    /\ fit.pc /= "loop"
    /\ ncalls < MaxCalls
    /\ hist' = BatchFilled(hist, batch, indices)
    /\ call' = [op |-> "fill_with_batch", batch |-> batch, indices |-> indices,
                raised |-> BatchRaises(hist, batch, indices)]
    /\ ncalls' = ncalls + 1
    /\ UNCHANGED <<files, fit, history>>

FillWithBatch ==
    \E indices \in Indices(Size(hist.data)) :
        \E batch \in Batches(hist, indices) : BatchCall(batch, indices)

(***************************************************************************)
(* Histogram.save, Histogram.load, Histogram.load_fit_results              *)
(***************************************************************************)
\* A file name: its directory part (os.path.dirname: "" for a bare file
\* name), its base name and its suffix ("" or ".npz").
Path(dir, name, ext) == [dir |-> dir, name |-> name, ext |-> ext]

\* the directories that exist beside the working directory
ExistingDirs == {"out"}

Paths == {Path(d, "h", e) : d \in {"", "out", "nodir"}, e \in {"", ".npz"}}

\* os.path.isdir(os.path.dirname(filename)): false for the empty string
IsDir(dir) == dir /= "" /\ dir \in ExistingDirs

\* os.path.isfile(filename)
IsFile(fs, path) == path \in DOMAIN fs

\* the file np.savez_compressed(filename, ..) writes: ".npz" is appended to a
\* file name that does not end with it
SavezTarget(path) == Path(path.dir, path.name, ".npz")

Function(name) == [kind |-> "function", name |-> name]

Str(name) == [kind |-> "str", s |-> name]

\* fit_func = 'NoneType' if not self.fit_function else
\*            self.fit_function.__name__
FitFuncName(h) ==
    IF h.fit_function = None THEN "NoneType" ELSE h.fit_function.name

\* the named arrays of the archive
Archive(h) ==
    [data              |-> h.data,
     bin_centers       |-> h.bin_centers,
     bin_edges         |-> h.bin_edges,
     bin_width         |-> <<h.bin_width>>,
     errors            |-> h.errors,
     underflow         |-> h.underflow,
     overflow          |-> h.overflow,
     fit_result        |-> h.fit_result,
     fit_function_name |-> <<FitFuncName(h)>>,
     fit_chi2_ndof     |-> h.fit_chi2_ndof,
     fit_axis          |-> h.fit_axis,
     xlabel            |-> <<h.xlabel>>,
     ylabel            |-> <<h.ylabel>>,
     label             |-> <<h.label>>,
     fit_result_label  |-> h.fit_result_label]

\* np.copy(file[key]): a key saved as None comes back as a zero-dimensional
\* object array
NpCopy(x) == IF x = None THEN NoneArray ELSE x

SaveRaises(h, path) ==
    IF ~IsDir(path.dir) THEN "FileNotFoundError"
    ELSE IF h.fit_function = Unset THEN "Exception"
    ELSE "none"

SaveCall(path) ==
    /\ fit.pc /= "loop"
    /\ ncalls < MaxCalls
    /\ files' = IF SaveRaises(hist, path) = "none"
                THEN [q \in DOMAIN files \cup {SavezTarget(path)} |->
                        IF q = SavezTarget(path) THEN Archive(hist)
                        ELSE files[q]]
                ELSE files
    /\ call' = [op |-> "save", path |-> path,
                raised |-> SaveRaises(hist, path)]
    /\ ncalls' = ncalls + 1
    /\ UNCHANGED <<hist, fit, history>>

Save == \E path \in Paths : SaveCall(path)

LoadRaises(fs, path) ==
    IF ~IsFile(fs, path) THEN "FileNotFoundError" ELSE "none"

\* fit_func = None if file['fit_function_name'][0] == 'NoneType' else
\*            np.copy(file['fit_function_name'][0])
LoadedFitFuncName(file) ==
    IF file.fit_function_name[1] = "NoneType" THEN None
    ELSE Str(file.fit_function_name[1])

\* mutant: the fit-only load also binds fit_function to the loaded name
LoadedFitWithFunction(h, file) ==
    [h EXCEPT
        !.fit_function      = Function(file.fit_function_name[1]),
        !.fit_result        = NpCopy(file.fit_result),
        !.fit_function_name = LoadedFitFuncName(file),
        !.fit_chi2_ndof     = NpCopy(file.fit_chi2_ndof),
        !.fit_axis          = NpCopy(file.fit_axis),
        !.fit_result_label  = NpCopy(file.fit_result_label)]

\* the five assignments of load_fit_results
LoadedFit(h, file) ==
    [h EXCEPT
        !.fit_result        = NpCopy(file.fit_result),
        !.fit_function_name = LoadedFitFuncName(file),
        !.fit_chi2_ndof     = NpCopy(file.fit_chi2_ndof),
        !.fit_axis          = NpCopy(file.fit_axis),
        !.fit_result_label  = NpCopy(file.fit_result_label)]

Loaded(h, file) ==
    [LoadedFit(h, file) EXCEPT
        !.data        = file.data,
        !.bin_centers = file.bin_centers,
        !.bin_edges   = file.bin_edges,
        !.bin_width   = file.bin_width[1],
        !.errors      = file.errors,
        !.underflow   = file.underflow,
        !.overflow    = file.overflow,
        !.xlabel      = file.xlabel[1],
        !.ylabel      = file.ylabel[1],
        !.label       = file.label[1]]

LoadCall(path) ==
    /\ fit.pc /= "loop"
    /\ ncalls < MaxCalls
    /\ hist' = IF LoadRaises(files, path) = "none"
               THEN Loaded(hist, files[path]) ELSE hist
    /\ call' = [op |-> "load", path |-> path,
                raised |-> LoadRaises(files, path)]
    /\ ncalls' = ncalls + 1
    /\ UNCHANGED <<files, fit, history>>

Load == \E path \in Paths : LoadCall(path)

LoadFitResultsCall(path) ==
    /\ fit.pc /= "loop"
    /\ ncalls < MaxCalls
    /\ hist' = IF LoadRaises(files, path) = "none"
               THEN LoadedFit(hist, files[path]) ELSE hist
    /\ call' = [op |-> "load_fit_results", path |-> path,
                raised |-> LoadRaises(files, path)]
    /\ ncalls' = ncalls + 1
    /\ UNCHANGED <<files, fit, history>>

LoadFitResults == \E path \in Paths : LoadFitResultsCall(path)

\* the object before __init__ has assigned anything
NoAttributes ==
    [f \in {"bin_width", "bin_edges", "bin_centers", "data", "underflow",
             "overflow", "errors", "fit_result", "fit_result_label",
             "fit_chi2_ndof", "fit_function", "fit_axis",
             "fit_function_name", "xlabel", "ylabel", "label"} |-> Unset]

\* Histogram(filename=path, fit_only=True): __init__ calls load_fit_results
\* and returns; when it raises, no new object is bound
OpenFitOnlyCall(path) ==
    /\ fit.pc /= "loop"
    /\ ncalls < MaxCalls
    /\ hist' = IF LoadRaises(files, path) = "none"
               THEN LoadedFit(NoAttributes, files[path]) ELSE hist
    /\ call' = [op |-> "__init__", fit_only |-> TRUE, path |-> path,
                raised |-> LoadRaises(files, path)]
    /\ ncalls' = ncalls + 1
    /\ UNCHANGED <<files, fit, history>>

OpenFitOnly == \E path \in Paths : OpenFitOnlyCall(path)

(***************************************************************************)
(* The fit strategies: spectra_fit/fit_low_light.py and generic ones.      *)
(***************************************************************************)
\* a [value, standard error] row of fit_result, and [chi2, ndof]
Pair(v, e) == [k \in 0..1 |-> IF k = 0 THEN v ELSE e]

\* mutant: the arrays are allocated with zeros
RowsOfZeros(n) == [i \in 0..(n - 1) |-> Pair(Num(0), Num(0))]

\* np.ones((n, 2)) * np.nan
NaNRows(n) == [i \in 0..(n - 1) |-> Pair(NaN, NaN)]

\* np.zeros((n, 2))
ZeroRows(n) == [i \in 0..(n - 1) |-> Pair(Num(0), Num(0))]

\* np.append(a, b, axis=-2) for the rows of one slot
AppendRows(a, b) ==
    [i \in 0..(Size(a) + Size(b) - 1) |->
        IF i < Size(a) THEN a[i] ELSE b[i - Size(a)]]

\* what a strategy function hands back: a value, or the exception it raises
Returns(v) == [raised |-> "none", v |-> v]

Raises(e) == [raised |-> e]

\* np.where(y != 0)[0]: the indices of the nonzero bins
NonZero(y) == {b \in DOMAIN y : y[b] /= 0}

Min(S) == CHOOSE x \in S : \A z \in S : x <= z

Max(S) == CHOOSE x \in S : \A z \in S : x >= z

\* a float a strategy computes; the model keeps its name, not its value
Token(name, j) == [f |-> name, j |-> j]

\* the parameter counts of the generic strategies of the model
ParamCounts == {6, 8}

\* fit_low_light.p0_func: mu, mu_xt, gain, baseline, sigma_e, sigma_1,
\* amplitude, offset. With a prior (config) np.average(x, weights=y) raises
\* ZeroDivisionError on weights that sum to zero; without one
\* np.max(x[y > 0]) raises ValueError on an empty selection.
LowLightP0(y, x, config) ==
    IF NonZero(y) = {}
    THEN Raises(IF config = None THEN "ValueError" ELSE "ZeroDivisionError")
    ELSE Returns([j \in 0..7 |->
            IF j = 6 THEN Num(Sum(y))
            ELSE IF j = 7 THEN Num(0)
            ELSE Token("p0", j)])

\* fit_low_light.slice_func:
\* [np.where(y != 0)[0][0], np.where(y != 0)[0][-1], 1]
LowLightSlice(y, x) ==
    IF NonZero(y) = {} THEN Raises("IndexError")
    ELSE Returns(<<Min(NonZero(y)), Max(NonZero(y)), 1>>)

\* fit_low_light.bounds_func: (param_min, param_max)
LowLightBounds(y, x, config) ==
    Returns([lower |-> [j \in 0..7 |-> Token("min", j)],
             upper |-> [j \in 0..7 |-> Token("max", j)]])

\* A generic strategy: its guess for slot s has plen[s] parameters, its
\* window is the whole axis, and its function named by fault.which raises
\* for slot fault.slot (nan_guess, nan_bounds: returns a NaN for that slot;
\* empty_window: returns the window [1, 1, 1] for that slot).
GenericP0(strategy, s) ==
    IF strategy.fault.which = "guess" /\ strategy.fault.slot = s
    THEN Raises("ValueError")
    ELSE Returns([j \in 0..(strategy.plen[s] - 1) |->
            IF /\ strategy.fault.which = "nan_guess"
               /\ strategy.fault.slot = s /\ j = 0
            THEN NaN ELSE Token("p0", j)])

GenericSlice(strategy, s, x) ==
    IF strategy.fault.which = "slice" /\ strategy.fault.slot = s
    THEN Raises("ValueError")
    ELSE IF strategy.fault.which = "empty_window" /\ strategy.fault.slot = s
    THEN Returns(<<1, 1, 1>>)
    ELSE Returns(<<0, Size(x), 1>>)

GenericBounds(strategy, s) ==
    IF strategy.fault.which = "bounds" /\ strategy.fault.slot = s
    THEN Raises("ValueError")
    ELSE Returns([lower |-> [j \in 0..(strategy.plen[s] - 1) |-> Token("min", j)],
                  upper |-> [j \in 0..(strategy.plen[s] - 1) |->
                      IF /\ strategy.fault.which = "nan_bounds"
                         /\ strategy.fault.slot = s /\ j = 0
                      THEN NaN ELSE Token("max", j)]])

\* p0_func(self.data[indices], self.bin_centers, config=..)
P0Func(strategy, h, s, config) ==
    IF strategy.kind = "low_light"
    THEN LowLightP0(h.data[s], h.bin_centers, config)
    ELSE GenericP0(strategy, s)

\* slice_func(self.data[indices], self.bin_centers, config=..)
SliceFunc(strategy, h, s) ==
    IF strategy.kind = "low_light"
    THEN LowLightSlice(h.data[s], h.bin_centers)
    ELSE GenericSlice(strategy, s, h.bin_centers)

\* bound_func(self.data[indices], self.bin_centers, config=..)
BoundFunc(strategy, h, s, config) ==
    IF strategy.kind = "low_light"
    THEN LowLightBounds(h.data[s], h.bin_centers, config)
    ELSE GenericBounds(strategy, s)

\* the objective raises when it is evaluated for slot s
ObjectiveRaises(strategy, s) ==
    /\ strategy.kind = "generic"
    /\ strategy.fault.which = "objective"
    /\ strategy.fault.slot = s

\* labels_func()
Labels(strategy) ==
    NdArray([j \in 0..7 |-> Token("label", j)])

(***************************************************************************)
(* Histogram._axis_fit                                                     *)
(***************************************************************************)
\* the outcomes of scipy.optimize.least_squares and of the inversion of J^T J
Chi2(o) == [f |-> "chi2", o |-> o]

Err(o, j) == [f |-> "err", o |-> o, j |-> j]

\* list_fixed_param: None, or the fixed indices and their values, in the
\* order fixed_param gives them
FixedList(idx, val) == [kind |-> "list", idx |-> idx, val |-> val]

IsFixed(fixed, i) ==
    /\ fixed /= None
    /\ \E k \in 1..Len(fixed.idx) : fixed.idx[k] = i

\* the indices of p0 that stay free, and the j-th of them in the order of p0
FreeSet(p0, fixed) == {i \in DOMAIN p0 : ~IsFixed(fixed, i)}

FreeIndex(p0, fixed, j) ==
    CHOOSE i \in FreeSet(p0, fixed) :
        Cardinality({f \in FreeSet(p0, fixed) : f < i}) = j

\* reduced_p0, and each half of reduced_bounds
Reduced(a, p0, fixed) ==
    IF fixed = None THEN a
    ELSE [j \in 0..(Cardinality(FreeSet(p0, fixed)) - 1) |->
            a[FreeIndex(p0, fixed, j)]]

\* the values of fixed_param[1] whose index in fixed_param[0] is i
RECURSIVE FixedValues(_, _, _)
FixedValues(fixed, i, k) ==
    IF k > Len(fixed.idx) THEN << >>
    ELSE (IF fixed.idx[k] = i THEN <<fixed.val[k]>> ELSE << >>)
         \o FixedValues(fixed, i, k + 1)

\* reduced_func: p_new, the vector the objective is called with when the
\* optimizer evaluates the reduced vector p
RECURSIVE PNew(_, _, _, _, _)
PNew(p, p0, fixed, i, j) ==
    IF i = Size(p0) THEN << >>
    ELSE IF ~IsFixed(fixed, i)
         THEN <<p[j]>> \o PNew(p, p0, fixed, i + 1, j + 1)
         ELSE FixedValues(fixed, i, 1) \o PNew(p, p0, fixed, i + 1, j)

ObjectiveArgument(p, p0, fixed) ==
    IF fixed = None THEN [i \in 1..Size(p) |-> p[i - 1]]
    ELSE PNew(p, p0, fixed, 0, 0)

HasNaN(a) == \E i \in DOMAIN a : a[i] = NaN

\* slice_list == [0, 0, 1] or .. or np.any(np.isnan(p0)); the test
\* self.data[idx][..].shape == 0 compares a tuple with 0 and is never true
BadInputs(p0, slice_list, bounds, fixed) ==
    \/ slice_list = <<0, 0, 1>>
    \/ HasNaN(Reduced(p0, p0, fixed))
    \/ HasNaN(Reduced(bounds.lower, p0, fixed))
    \/ HasNaN(Reduced(bounds.upper, p0, fixed))
    \/ HasNaN(p0)

\* ndof = (slice_list[1] - slice_list[0]) / slice_list[2] - len(reduced_p0);
\* the windows of the model have step 1
Ndof(slice_list, n) ==
    Num((slice_list[2] - slice_list[1]) \div slice_list[3] - n)

\* the rows of the free parameters: NaN for bad inputs and for an exception
\* in the optimizer, [value, NaN] when J^T J is singular
FreeRows(n, bad, outcome) ==
    IF bad \/ outcome.kind = "error" THEN NaNRows(n)
    ELSE [j \in 0..(n - 1) |->
            Pair(Opt(outcome.o, j),
                 IF outcome.kind = "singular" THEN NaN ELSE Err(outcome.o, j))]

\* np.insert(a, i, row, axis=0) for i <= len(a)
Insert(a, i, row) ==
    [k \in 0..Size(a) |->
        IF k < i THEN a[k] ELSE IF k = i THEN row ELSE a[k - 1]]

\* for k, i in enumerate(fixed_param[0]):
\*     fit_result = np.insert(fit_result, int(i), [fixed_param[1][k], 0.], axis=0)
\* np.insert raises IndexError for an index beyond the end
RECURSIVE RestoreFixed(_, _, _)
RestoreFixed(rows, fixed, k) ==
    IF k > Len(fixed.idx) THEN Returns(rows)
    ELSE IF fixed.idx[k] > Size(rows) THEN Raises("IndexError")
    ELSE RestoreFixed(Insert(rows, fixed.idx[k], Pair(fixed.val[k], Num(0))),
                      fixed, k + 1)

\* _axis_fit(idx, func, p0, slice_list, bounds, fixed_param): what it returns
\* (fit_result, chi2, ndof) or raises, with the vector handed to the
\* optimizer (x0) and the vector the objective is first called with
AxisFit(p0, slice_list, bounds, fixed, outcome) ==
    LET n        == Size(Reduced(p0, p0, fixed))
        bad      == BadInputs(p0, slice_list, bounds, fixed)
        rows     == FreeRows(n, bad, outcome)
        restored == IF fixed = None THEN Returns(rows)
                    ELSE RestoreFixed(rows, fixed, 1)
    IN  [raised     |-> restored.raised,
         fit_result |-> IF restored.raised = "none" THEN restored.v ELSE rows,
         free_rows  |-> rows,
         p0         |-> p0,
         slice_list |-> slice_list,
         bounds     |-> bounds,
         chi2       |-> IF bad \/ outcome.kind = "error" THEN NaN
                        ELSE Chi2(outcome.o),
         ndof       |-> Ndof(slice_list, n),
         optimized  |-> ~bad,
         x0         |-> Reduced(p0, p0, fixed),
         objective  |-> ObjectiveArgument(Reduced(p0, p0, fixed), p0, fixed)]

(***************************************************************************)
(* Histogram.fit                                                           *)
(***************************************************************************)
\* the arguments of fit(func, p0_func, slice_func, bound_func, labels_func,
\* config=.., limited_indices=.., fixed_param=..); the four functions are
\* those of one strategy
FitArgs(strategy, config, limited_indices, fixed_param) ==
    [strategy        |-> strategy,
     config          |-> config,
     limited_indices |-> limited_indices,
     fixed_param     |-> fixed_param]

\* a prior: the fit_result of an earlier fit, handed over as config
Prior == [kind |-> "ndarray", shape |-> "array", slot |-> "all"]

\* config[indices] if config is an ndarray, else None
ConfigAt(config, s) ==
    IF config.kind = "ndarray" THEN [config EXCEPT !.slot = s] ELSE None

\* a fixed value given as a reference into the prior: (param_index, (i, j))
Ref(name) == [f |-> "ref", ref |-> name]

\* list_fixed_param: None for an empty fixed_param; config[indices][p[1]]
\* for a reference raises TypeError when config is None
ListFixedParam(fixed_param, config, s) ==
    IF Len(fixed_param) = 0 THEN Returns(None)
    ELSE IF /\ config.kind /= "ndarray"
            /\ \E k \in 1..Len(fixed_param) : fixed_param[k][2].f = "ref"
    THEN Raises("TypeError")
    ELSE Returns(FixedList(
            [k \in 1..Len(fixed_param) |-> fixed_param[k][1]],
            [k \in 1..Len(fixed_param) |->
                IF fixed_param[k][2].f = "ref"
                THEN [f |-> "cfg", s |-> s, ref |-> fixed_param[k][2].ref]
                ELSE fixed_param[k][2]]))

\* mutant: every iteration allocates the arrays anew
NeedsAllocationAlways(x) == TRUE

\* type(x).__name__ != 'ndarray' or x.shape == ()
NeedsAllocation(x) == x.kind /= "ndarray" \/ x.shape = "()"

\* np.append(rows, np.zeros((n - len(rows), 2)), axis=-2) when rows is shorter
PadRows(rows, n) ==
    IF Size(rows) < n THEN AppendRows(rows, ZeroRows(n - Size(rows)))
    ELSE rows

\* mutant: only the slot that is being written grows
GrownCurrentSlot(fr, s, fit_res) ==
    [t \in DOMAIN fr |-> IF t = s THEN PadRows(fr[t], Size(fit_res)) ELSE fr[t]]

\* if self.fit_result[indices].shape[-2] < fit_res.shape[-2]: zero rows are
\* appended to every slot of self.fit_result
Grown(fr, s, fit_res) ==
    [t \in DOMAIN fr |-> PadRows(fr[t], Size(fit_res))]

\* the reconciliation of the sizes and the three assignments that end an
\* iteration
Written(h, s, ax) ==
    [h EXCEPT
        !.fit_result =
            NdArray([Grown(h.fit_result.a, s, ax.fit_result) EXCEPT
                        ![s] = PadRows(ax.fit_result, Size(h.fit_result.a[s]))]),
        !.fit_chi2_ndof =
            NdArray([h.fit_chi2_ndof.a EXCEPT ![s] = Pair(ax.chi2, ax.ndof)])]

\* where an iteration stops: the exception, the store it leaves, whether
\* count was incremented and what _axis_fit returned
Stopped(e, h, counted) ==
    [raised |-> e, hist |-> h, counted |-> counted, axis |-> None]

\* one iteration of the loop over indices_list, for slot s
FitIterated(h, args, s, outcome) ==
    LET cfg   == ConfigAt(args.config, s)
        guess == P0Func(args.strategy, h, s, cfg)
        h1    == IF NeedsAllocation(h.fit_result)
                 THEN [h EXCEPT !.fit_result =
                          NdArray([t \in DOMAIN h.data |->
                                      NaNRows(Size(guess.v))])]
                 ELSE h
        h2    == IF NeedsAllocation(h1.fit_chi2_ndof)
                 THEN [h1 EXCEPT !.fit_chi2_ndof =
                          NdArray([t \in DOMAIN h.data |-> Pair(NaN, NaN)])]
                 ELSE h1
        fixed == ListFixedParam(args.fixed_param, args.config, s)
        sl    == SliceFunc(args.strategy, h, s)
        bd    == BoundFunc(args.strategy, h, s, cfg)
        ax    == AxisFit(guess.v, sl.v, bd.v, fixed.v, outcome)
    IN  IF NeedsAllocation(h.fit_result) /\ guess.raised /= "none"
        THEN Stopped(guess.raised, h, FALSE)
        ELSE IF fixed.raised /= "none" THEN Stopped(fixed.raised, h2, TRUE)
        ELSE IF guess.raised /= "none" THEN Stopped(guess.raised, h2, TRUE)
        ELSE IF sl.raised /= "none" THEN Stopped(sl.raised, h2, TRUE)
        ELSE IF bd.raised /= "none" THEN Stopped(bd.raised, h2, TRUE)
        ELSE IF ax.raised /= "none" THEN Stopped(ax.raised, h2, TRUE)
        ELSE [raised |-> "none", hist |-> Written(h2, s, ax),
              counted |-> TRUE, axis |-> ax]

\* mutant: the call also clears the errors
FitBegunClearingErrors(h, args) ==
    [h EXCEPT !.fit_function = Function(args.strategy.kind),
              !.fit_result_label = Labels(args.strategy),
              !.errors = Zeros2(Size(h.data), Size(h.bin_centers))]

\* self.fit_function = func; self.fit_result_label = labels_func()
FitBegun(h, args) ==
    [h EXCEPT !.fit_function = Function(args.strategy.kind),
              !.fit_result_label = Labels(args.strategy)]

\* indices_list: np.ndindex(data_shape), or limited_indices if it is not empty
IndicesList(h, args) ==
    IF Len(args.limited_indices) > 0 THEN args.limited_indices
    ELSE [i \in 1..Size(h.data) |-> i - 1]

\* the bins of self.data[idx][start:end:step], for an array of n bins
WindowBins(slice_list, n) ==
    {b \in 0..(n - 1) : /\ slice_list[1] <= b
                        /\ b < slice_list[2]
                        /\ (b - slice_list[1]) % slice_list[3] = 0}

\* what the optimizer can do with one slot: converge with an invertible
\* J^T J, converge with a singular one, or raise. On a window without bins
\* the residuals are empty and J^T J is the zero matrix: never invertible.
Outcomes(strategy, h, s) ==
    LET sl == SliceFunc(strategy, h, s)
    IN  {[kind |-> k, o |-> s] :
            k \in IF ObjectiveRaises(strategy, s) THEN {"error"}
                  ELSE IF /\ sl.raised = "none"
                          /\ WindowBins(sl.v, Size(h.bin_centers)) = {}
                  THEN {"singular", "error"}
                  ELSE {"ok", "singular", "error"}}

\* the strategies of the model
NoFault == [which |-> "none", slot |-> 0]

LowLight == [kind |-> "low_light", fault |-> NoFault]

Generic(plen, fault) == [kind |-> "generic", plen |-> plen, fault |-> fault]

Faulty(n) ==
    {Generic([t \in 0..(n - 1) |-> 6], [which |-> w, slot |-> k]) :
        w \in {"guess", "slice", "bounds", "objective"}, k \in 0..(n - 1)}

\* strategies whose guess or upper bounds hold a NaN, or whose window is
\* empty, for one slot
DegenerateFor(n) ==
    {Generic([t \in 0..(n - 1) |-> 6], [which |-> w, slot |-> k]) :
        w \in {"nan_guess", "nan_bounds", "empty_window"}, k \in 0..(n - 1)}

Mixed(n) == {Generic(plen, NoFault) : plen \in [0..(n - 1) -> ParamCounts]}

\* limited_indices: none, the last slot alone, every slot from last to first
LimitedIndices(n) ==
    {<< >>, <<n - 1>>, [i \in 1..n |-> n - i]}

\* fixed_param: lists of (param_index, value) in ascending and in other orders
FixedParams ==
    {<< >>,
     <<<<1, Num(7)>>, <<3, Num(9)>>>>,
     <<<<3, Num(9)>>, <<1, Num(7)>>>>,
     <<<<5, Num(7)>>, <<0, Num(9)>>>>,
     <<<<2, Ref("mu")>>>>}

FitInputs(h) ==
    LET n == Size(h.data)
    IN  {FitArgs(LowLight, c, << >>, << >>) : c \in {None, Prior}}
        \cup {FitArgs(g, None, << >>, << >>) : g \in Faulty(n) \cup DegenerateFor(n)}
        \cup {FitArgs(g, None, l, << >>) :
                g \in Mixed(n), l \in LimitedIndices(n)}
        \cup {FitArgs(Generic([t \in 0..(n - 1) |-> 6], NoFault), c, << >>, f) :
                c \in {None, Prior}, f \in FixedParams}

\* the call of fit, up to the loop
FitBegin ==
    \E args \in FitInputs(hist) :
        /\ fit.pc = "idle"
        /\ hist' = FitBegun(hist, args)
        /\ fit' = [pc           |-> "loop",
                   args         |-> args,
                   indices_list |-> IndicesList(hist, args),
                   count        |-> 0,
                   done         |-> << >>,
                   returned     |-> [s \in {} |-> None]]
        /\ call' = [op |-> "fit", raised |-> "none"]
        /\ UNCHANGED <<files, ncalls, history>>

\* one iteration of the loop; an exception ends the call
FitSlot ==
    /\ fit.pc = "loop"
    /\ Len(fit.done) < Len(fit.indices_list)
    /\ LET s == fit.indices_list[Len(fit.done) + 1]
       IN  \E outcome \in Outcomes(fit.args.strategy, hist, s) :
              LET r == FitIterated(hist, fit.args, s, outcome)
              IN  /\ hist' = r.hist
                  /\ fit' = [fit EXCEPT
                        !.pc       = IF r.raised = "none" THEN "loop"
                                     ELSE "raised",
                        !.count    = IF r.counted THEN @ + 1 ELSE @,
                        !.done     = IF r.raised = "none" THEN Append(@, s)
                                     ELSE @,
                        !.returned = IF r.raised = "none"
                                     THEN [t \in DOMAIN @ \cup {s} |->
                                            IF t = s THEN r.axis ELSE @[t]]
                                     ELSE @]
                  /\ call' = [op |-> "fit", raised |-> r.raised]
    /\ UNCHANGED <<files, ncalls, history>>

\* the loop is exhausted: fit returns
FitEnd ==
    /\ fit.pc = "loop"
    /\ Len(fit.done) = Len(fit.indices_list)
    /\ fit' = [fit EXCEPT !.pc = "done"]
    /\ UNCHANGED <<hist, files, call, ncalls, history>>

(***************************************************************************)
(* The iteration of Histogram.fit, statement by statement, run by one      *)
(* thread per slot on the same store without a lock.                       *)
(***************************************************************************)
\* the slots that are fit side by side, one thread each
ParSlots == 0..1

\* the locals of the thread of one slot: fit_res, chi2, ndof, and the value
\* of np.append(self.fit_result, ..) before it is assigned
ThreadStart ==
    [pc |-> "check_result", fit_res |-> None, chi2 |-> None, ndof |-> None,
     grown |-> None]

ThreadAt(s, pc) == fit.pc = "threads" /\ fit.threads[s].pc = pc

\* the frame of fit with the locals of thread s changed
WithThread(s, frame) == [fit EXCEPT !.threads[s] = frame]

\* mutant: the assignment replaces the rows of the other slots as well
SlotWrittenOverAll(fr, s, fit_res) ==
    [t \in DOMAIN fr |-> IF t = s THEN fit_res ELSE NaNRows(Size(fit_res))]

\* self.fit_result[indices] = fit_res, in place
SlotWritten(fr, s, fit_res) == [fr EXCEPT ![s] = fit_res]

\* if type(self.fit_result).__name__ != 'ndarray' or
\*    self.fit_result.shape == ():
ParCheckResult(s) ==
    /\ ThreadAt(s, "check_result")
    /\ fit' = WithThread(s, [fit.threads[s] EXCEPT !.pc =
                IF NeedsAllocation(hist.fit_result) THEN "alloc_result"
                ELSE "check_chi2"])
    /\ UNCHANGED <<hist, files, call, ncalls, history>>

\* self.fit_result = np.ones(data_shape + (len(p0_func(..)), 2)) * np.nan
ParAllocResult(s) ==
    /\ ThreadAt(s, "alloc_result")
    /\ hist' = [hist EXCEPT !.fit_result =
                  NdArray([t \in DOMAIN hist.data |->
                            NaNRows(Size(P0Func(fit.args.strategy, hist, s,
                                                None).v))])]
    /\ fit' = WithThread(s, [fit.threads[s] EXCEPT !.pc = "check_chi2"])
    /\ UNCHANGED <<files, call, ncalls, history>>

\* if type(self.fit_chi2_ndof).__name__ != 'ndarray' or ..
ParCheckChi2(s) ==
    /\ ThreadAt(s, "check_chi2")
    /\ fit' = WithThread(s, [fit.threads[s] EXCEPT !.pc =
                IF NeedsAllocation(hist.fit_chi2_ndof) THEN "alloc_chi2"
                ELSE "axis_fit"])
    /\ UNCHANGED <<hist, files, call, ncalls, history>>

\* self.fit_chi2_ndof = np.ones(data_shape + (2,)) * np.nan
ParAllocChi2(s) ==
    /\ ThreadAt(s, "alloc_chi2")
    /\ hist' = [hist EXCEPT !.fit_chi2_ndof =
                  NdArray([t \in DOMAIN hist.data |-> Pair(NaN, NaN)])]
    /\ fit' = WithThread(s, [fit.threads[s] EXCEPT !.pc = "axis_fit"])
    /\ UNCHANGED <<files, call, ncalls, history>>

\* fit_res, chi2, ndof = self._axis_fit(indices, func, p0_func(..), ..)
ParAxisFit(s) ==
    /\ ThreadAt(s, "axis_fit")
    /\ \E outcome \in Outcomes(fit.args.strategy, hist, s) :
          LET ax == AxisFit(P0Func(fit.args.strategy, hist, s, None).v,
                            SliceFunc(fit.args.strategy, hist, s).v,
                            BoundFunc(fit.args.strategy, hist, s, None).v,
                            None, outcome)
          IN  fit' = [WithThread(s, [fit.threads[s] EXCEPT
                                        !.pc = "reconcile",
                                        !.fit_res = ax.fit_result,
                                        !.chi2 = ax.chi2,
                                        !.ndof = ax.ndof])
                        EXCEPT !.returned[s] = ax]
    /\ UNCHANGED <<hist, files, call, ncalls, history>>

\* if self.fit_result[indices].shape[-2] < fit_res.shape[-2]: the value of
\* np.append(self.fit_result, additional_columns, axis=-2) is computed
ParReconcile(s) ==
    /\ ThreadAt(s, "reconcile")
    /\ fit' = WithThread(s,
                IF Size(hist.fit_result.a[s]) < Size(fit.threads[s].fit_res)
                THEN [fit.threads[s] EXCEPT
                        !.pc = "grow_assign",
                        !.grown = Grown(hist.fit_result.a, s,
                                        fit.threads[s].fit_res)]
                ELSE [fit.threads[s] EXCEPT !.pc = "pad"])
    /\ UNCHANGED <<hist, files, call, ncalls, history>>

\* self.fit_result = <the value of np.append>
ParGrowAssign(s) ==
    /\ ThreadAt(s, "grow_assign")
    /\ hist' = [hist EXCEPT !.fit_result = NdArray(fit.threads[s].grown)]
    /\ fit' = WithThread(s, [fit.threads[s] EXCEPT !.pc = "pad"])
    /\ UNCHANGED <<files, call, ncalls, history>>

\* if self.fit_result[indices].shape[-2] > fit_res.shape[-2]:
\*     fit_res = np.append(fit_res, additional_columns, axis=-2)
ParPad(s) ==
    /\ ThreadAt(s, "pad")
    /\ fit' = WithThread(s, [fit.threads[s] EXCEPT
                !.pc = "write",
                !.fit_res = PadRows(@, Size(hist.fit_result.a[s]))])
    /\ UNCHANGED <<hist, files, call, ncalls, history>>

\* self.fit_result[indices] = fit_res: ValueError when the array that is
\* bound by now has another number of rows
ParWrite(s) ==
    /\ ThreadAt(s, "write")
    /\ IF Size(hist.fit_result.a[s]) = Size(fit.threads[s].fit_res)
       THEN /\ hist' = [hist EXCEPT !.fit_result =
                          NdArray(SlotWritten(hist.fit_result.a, s,
                                              fit.threads[s].fit_res))]
            /\ fit' = WithThread(s, [fit.threads[s] EXCEPT
                                        !.pc = "write_chi2"])
       ELSE /\ hist' = hist
            /\ fit' = WithThread(s, [fit.threads[s] EXCEPT !.pc = "raised"])
    /\ UNCHANGED <<files, call, ncalls, history>>

\* self.fit_chi2_ndof[indices][0] = chi2; self.fit_chi2_ndof[indices][1] = ndof
ParWriteChi2(s) ==
    /\ ThreadAt(s, "write_chi2")
    /\ hist' = [hist EXCEPT !.fit_chi2_ndof =
                  NdArray([hist.fit_chi2_ndof.a EXCEPT
                            ![s] = Pair(fit.threads[s].chi2,
                                        fit.threads[s].ndof)])]
    /\ fit' = WithThread(s, [fit.threads[s] EXCEPT !.pc = "done"])
    /\ UNCHANGED <<files, call, ncalls, history>>

(***************************************************************************)
(* Specifications.                                                         *)
(***************************************************************************)
IdleFit == [pc |-> "idle"]

\* a store right after Histogram(data_shape=.., bin_center_min=.., ...)
InitStore ==
    /\ hist \in {Create(n, axis) : n \in DataShapes, axis \in Axes}
    /\ files = [p \in {} |-> None]
    /\ call = [op |-> "__init__", raised |-> "none"]
    /\ fit = IdleFit
    /\ ncalls = 0
    /\ history = [given  |-> Zeros2(Size(hist.data), Size(hist.bin_centers)),
                  single |-> Zeros2(Size(hist.data), Size(hist.bin_centers))]

Init == InitStore

\* the store under streaming fills, batch fills and error computations
Next == Fill \/ FillWithBatch \/ ComputeErrors

Spec == Init /\ [][Next]_vars

\* a fresh store under fill calls alone
NextFill == Fill \/ ComputeErrors

SpecFill == Init /\ [][NextFill]_vars

\* the data of one slot: empty, one filled bin (the first, the second),
\* every bin filled
SlotData(axis) ==
    LET N == Size(axis.bin_centers)
    IN  {Zeros(N), [b \in 0..(N - 1) |-> IF b = 0 THEN 2 ELSE 0],
         [b \in 0..(N - 1) |-> IF b = 1 THEN 2 ELSE 0],
         [b \in 0..(N - 1) |-> b + 1]}

\* a store built from existing data: Histogram(data=.., bin_centers=..)
InitFromData ==
    /\ hist \in UNION {{CreateFromData(d, axis) :
                            d \in UNION {[0..(n - 1) -> SlotData(axis)] :
                                            n \in DataShapes}} :
                        axis \in Axes}
    /\ files = [p \in {} |-> None]
    /\ call = [op |-> "__init__", raised |-> "none"]
    /\ fit = IdleFit
    /\ ncalls = 0
    /\ history = [given  |-> hist.data, single |-> hist.data]

NextFit == FitBegin \/ FitSlot \/ FitEnd

\* one call of fit on a store built from data
SpecFit == InitFromData /\ [][NextFit]_vars

\* a one-slot store after fit with a generic strategy has fit its slot
Fitted(h) ==
    LET args == FitArgs(Generic([t \in 0..0 |-> 6], NoFault), None,
                        << >>, << >>)
    IN  FitIterated(FitBegun(h, args), args, 0, [kind |-> "ok", o |-> 0]).hist

\* the stores that are saved and loaded: fresh ones, one-slot stores built
\* from data, and those after a fit
\* the filled data of a one-slot store
FilledSlot(axis) ==
    [t \in 0..0 |-> [b \in 0..(Size(axis.bin_centers) - 1) |-> b + 1]]

StoresIO ==
    {Create(n, axis) : n \in DataShapes, axis \in Axes}
    \cup {CreateFromData(FilledSlot(axis), axis) : axis \in Axes}
    \cup {Fitted(CreateFromData(FilledSlot(axis), axis)) : axis \in Axes}

\* the file system at the start: empty, or with the archive an earlier run
\* saved as out/h.npz
InitIO ==
    /\ hist \in StoresIO
    /\ files \in {[p \in {} |-> None]}
           \cup {[p \in {Path("out", "h", ".npz")} |-> Archive(h)] :
                    h \in StoresIO}
    /\ call = [op |-> "__init__", raised |-> "none"]
    /\ fit = IdleFit
    /\ ncalls = 0
    /\ history = [given  |-> hist.data, single |-> hist.data]

NextIO == Save \/ Load \/ LoadFitResults \/ OpenFitOnly

\* a store that is saved and loaded
SpecIO == InitIO /\ [][NextIO]_vars

\* the constructor calls of the model: (bin_center_min, bin_center_max,
\* bin_width) with bin_center_max >= bin_center_min and any sign of bin_width
CenterMins == {-1, 0, 1}

Widths == (-MaxWidth)..MaxWidth

\* Histogram(data_shape=(n,), bin_center_min=.., bin_center_max=..,
\* bin_width=..): np.arange raises, or the store is built
ConstructCall(n, bin_center_min, bin_center_max, bin_width) ==
    /\ hist = Unset
    /\ \E e \in ArangeRaises(bin_width) :
          /\ hist' = IF e = "none"
                     THEN Create(n, AxisFromRange(bin_center_min,
                                                  bin_center_max, bin_width))
                     ELSE Unset
          /\ call' = [op |-> "__init__",
                      bin_center_min |-> bin_center_min,
                      bin_center_max |-> bin_center_max,
                      bin_width |-> bin_width,
                      raised |-> e]
    /\ UNCHANGED <<files, fit, ncalls, history>>

Construct ==
    \E n \in DataShapes, bin_center_min \in CenterMins, bin_width \in Widths :
        \E bin_center_max \in bin_center_min..(bin_center_min + MaxSpan) :
            ConstructCall(n, bin_center_min, bin_center_max, bin_width)

\* before the constructor has run
InitNoStore ==
    /\ hist = Unset
    /\ files = [p \in {} |-> None]
    /\ call = [op |-> "none", raised |-> "none"]
    /\ fit = IdleFit
    /\ ncalls = 0
    /\ history = [given |-> Empty, single |-> Empty]

NextAxis == Construct

\* the construction of a store from an axis range
SpecAxis == InitNoStore /\ [][NextAxis]_vars

\* a two-slot store after a fit of both slots, one after the other
FittedBoth(h, args) ==
    LET first == FitIterated(FitBegun(h, args), args, 0,
                             [kind |-> "ok", o |-> "earlier"]).hist
    IN  FitIterated(first, args, 1, [kind |-> "ok", o |-> "earlier"]).hist

\* the arguments of a fit whose guess has plen[s] parameters for slot s
PlainArgs(plen) == FitArgs(Generic(plen, NoFault), None, << >>, << >>)

\* the stores the threads start on: never fit, or fit before with 6 or with
\* 8 parameters in every slot
StoresPar ==
    LET h == CreateFromData(
                [t \in ParSlots |-> [b \in 0..2 |-> b + 1]],
                AxisFromRange(0, 2, 1))
    IN  {h} \cup {FittedBoth(h, PlainArgs([t \in ParSlots |-> n])) :
                    n \in ParamCounts}

\* fit has assigned fit_function and fit_result_label; every thread is at
\* the top of the iteration of its slot
InitPar ==
    /\ \E h \in StoresPar, plen \in [ParSlots -> ParamCounts] :
          /\ hist = FitBegun(h, PlainArgs(plen))
          /\ fit = [pc       |-> "threads",
                    args     |-> PlainArgs(plen),
                    wide     |-> /\ ~NeedsAllocation(h.fit_result)
                                 /\ ~NeedsAllocation(h.fit_chi2_ndof)
                                 /\ \A s \in ParSlots :
                                       Size(h.fit_result.a[s]) >= plen[s],
                    threads  |-> [s \in ParSlots |-> ThreadStart],
                    returned |-> [s \in ParSlots |-> None]]
    /\ files = [p \in {} |-> None]
    /\ call = [op |-> "fit", raised |-> "none"]
    /\ ncalls = 0
    /\ history = [given |-> hist.data, single |-> hist.data]

NextPar ==
    \E s \in ParSlots :
        \/ ParCheckResult(s)
        \/ ParAllocResult(s)
        \/ ParCheckChi2(s)
        \/ ParAllocChi2(s)
        \/ ParAxisFit(s)
        \/ ParReconcile(s)
        \/ ParGrowAssign(s)
        \/ ParPad(s)
        \/ ParWrite(s)
        \/ ParWriteChi2(s)

\* the slots of one store fit by concurrent threads
SpecPar == InitPar /\ [][NextPar]_vars

(***************************************************************************)
(* A fit on a store that may hold the results of an earlier fit, or that   *)
(* was loaded from an archive saved before any fit.                        *)
(***************************************************************************)
\* the iterations of an earlier fit over the slots q, the optimizer having
\* converged for each; the values of the earlier fit of slot s carry the
\* outcome -1 - s
RECURSIVE FitRun(_, _, _)
FitRun(h, args, q) ==
    IF Len(q) = 0 THEN h
    ELSE FitRun(FitIterated(h, args, Head(q),
                            [kind |-> "ok", o |-> -1 - Head(q)]).hist,
                args, Tail(q))

EarlierFit(h, args) == FitRun(FitBegun(h, args), args, IndicesList(h, args))

\* a store of n filled slots on the axis of centers 0, 1, 2
FilledStore(n) ==
    CreateFromData([t \in 0..(n - 1) |-> [b \in 0..2 |-> b + 1]],
                   AxisFromRange(0, 2, 1))

\* h.save(path), then Histogram(filename=path) or h.load(path)
LoadedBeforeFit(h) == Loaded(h, Archive(h))

\* the stores a fit is called on, each with the slots an earlier fit has fit:
\* never fit; loaded from an archive saved before any fit; fit before in
\* every slot; fit before in the last slot alone
StoresRefit(n) ==
    {[hist |-> FilledStore(n), fitted |-> {}],
     [hist |-> LoadedBeforeFit(FilledStore(n)), fitted |-> {}]}
    \cup {[hist   |-> EarlierFit(FilledStore(n),
                                 PlainArgs([t \in 0..(n - 1) |-> k])),
           fitted |-> 0..(n - 1)] : k \in ParamCounts}
    \cup {[hist   |-> EarlierFit(FilledStore(n),
                        FitArgs(Generic([t \in 0..(n - 1) |-> 6], NoFault),
                                None, <<n - 1>>, << >>)),
           fitted |-> {n - 1}]}

\* history keeps the fit fields the store had before the call and the slots
\* fit by earlier calls
InitRefit ==
    /\ \E st \in StoresRefit(2) \cup StoresRefit(3) :
          /\ hist = st.hist
          /\ history = [given         |-> st.hist.data,
                        single        |-> st.hist.data,
                        fit_result    |-> st.hist.fit_result,
                        fit_chi2_ndof |-> st.hist.fit_chi2_ndof,
                        fitted        |-> st.fitted]
    /\ files = [p \in {} |-> None]
    /\ call = [op |-> "__init__", raised |-> "none"]
    /\ fit = IdleFit
    /\ ncalls = 0

\* one call of fit on such a store
SpecRefit == InitRefit /\ [][NextFit]_vars

(***************************************************************************)
(* data_treatement: synch_hist.run and dark_hist.run stream the events of  *)
(* a data source into a store.                                             *)
(***************************************************************************)
\* the runs of the model: synch_hist.run(hist, options), and
\* dark_hist.run(hist, options, hist_type) for 'raw', 'integral' and a
\* hist_type the run does not know
Runs ==
    {[module |-> "synch_hist", hist_type |-> "none"]}
    \cup {[module |-> "dark_hist", hist_type |-> t] :
            t \in {"raw", "integral", "other"}}

\* the frame of a run: the events before min_event are skipped; ncalls is
\* the event counter
RunFrame(run, min_event, pc, filled, raised) ==
    [op        |-> "run",
     module    |-> run.module,
     hist_type |-> run.hist_type,
     min_event |-> min_event,
     pc        |-> pc,
     filled    |-> filled,
     raised    |-> raised]

\* the position of the running call
RunAt(pc) == call.op = "run" /\ call.pc = pc

RunBegin ==
    \E run \in Runs, min_event \in 0..1 :
        /\ call.op = "__init__"
        /\ call' = RunFrame(run, min_event, "events", 0, "none")
        /\ UNCHANGED <<hist, files, fit, ncalls, history>>

\* an event before min_event: the counter is incremented, the loop continues
RunSkipEvent ==
    /\ RunAt("events")
    /\ ncalls < MaxCalls
    /\ ncalls < call.min_event
    /\ ncalls' = ncalls + 1
    /\ UNCHANGED <<hist, files, call, fit, history>>

\* one value per slot: the peak position of synch_hist, the integral of
\* dark_hist
EventValues(h) ==
    {[rank |-> 1, a |-> a] :
        a \in [0..(Size(h.data) - 1) -> {<<v>> : v \in FillSamples(h)}]}

\* the store after one event of the run: hist.fill(data_max),
\* hist.fill_with_batch(data), hist.fill(temp), or nothing for a hist_type
\* the run does not know
EventFilled(h, run, value, batch) ==
    IF run.module = "synch_hist" \/ run.hist_type = "integral"
    THEN Filled(h, value, NoIndices)
    ELSE IF run.hist_type = "raw" THEN BatchFilled(h, batch, NoIndices)
    ELSE h

RunEvent ==
    /\ RunAt("events")
    /\ ncalls < MaxCalls
    /\ ncalls >= call.min_event
    /\ \E value \in EventValues(hist), batch \in Batches(hist, NoIndices) :
          /\ hist' = EventFilled(hist, call, value, batch)
          /\ history' = IF call.module = "synch_hist"
                           \/ call.hist_type = "integral"
                        THEN Recorded(hist, value, NoIndices)
                        ELSE history
    /\ call' = [call EXCEPT !.filled = IF call.hist_type = "other"
                                       THEN @ ELSE @ + 1]
    /\ ncalls' = ncalls + 1
    /\ UNCHANGED <<files, fit>>

\* the data source is exhausted, or the event counter has passed max_event:
\* synch_hist goes on to update the errors, dark_hist returns
RunEndOfEvents ==
    /\ RunAt("events")
    /\ call' = [call EXCEPT !.pc = IF call.module = "synch_hist"
                                   THEN "errors" ELSE "returned"]
    /\ UNCHANGED <<hist, files, fit, ncalls, history>>

\* synch_hist: hist._compute_errors()
RunComputeErrors ==
    /\ RunAt("errors")
    /\ hist' = [hist EXCEPT !.errors = ComputedErrors(hist.data)]
    /\ call' = [call EXCEPT !.pc = "save"]
    /\ UNCHANGED <<files, fit, ncalls, history>>

\* synch_hist: hist.save(options.output_directory + options.histo_filename)
RunSave ==
    \E path \in Paths :
        /\ RunAt("save")
        /\ files' = IF SaveRaises(hist, path) = "none"
                    THEN [q \in DOMAIN files \cup {SavezTarget(path)} |->
                            IF q = SavezTarget(path) THEN Archive(hist)
                            ELSE files[q]]
                    ELSE files
        /\ call' = [call EXCEPT
                        !.pc = IF SaveRaises(hist, path) = "none"
                               THEN "returned" ELSE "raised",
                        !.raised = SaveRaises(hist, path)]
        /\ UNCHANGED <<hist, fit, ncalls, history>>

NextRun ==
    \/ RunBegin
    \/ RunSkipEvent
    \/ RunEvent
    \/ RunEndOfEvents
    \/ RunComputeErrors
    \/ RunSave

\* one data-treatment run on a fresh store
SpecRun == InitStore /\ [][NextRun]_vars

(***************************************************************************)
(* The values of the charge-spectrum strategy with a prior (warm start):   *)
(* fit_low_light.p0_func and bounds_func with config, and the range of     *)
(* photoelectron counts of fit_low_light.fit_func.                         *)
(***************************************************************************)
\* a float as an exact ratio num / den with den >= 0; den = 0 is an infinity
Ratio(n, d) == [num |-> n, den |-> d]

Inf == Ratio(1, 0)

NegInf == Ratio(-1, 0)

\* a <= b on floats: every comparison with NaN is false
Leq(a, b) ==
    IF a = NaN \/ b = NaN THEN FALSE
    ELSE IF a.den = 0 /\ b.den = 0 THEN a.num <= b.num
    ELSE a.num * b.den <= b.num * a.den

\* n / d on numpy floats: a zero divisor gives an infinity or NaN
Div(n, d) ==
    IF d > 0 THEN Ratio(n, d)
    ELSE IF d < 0 THEN Ratio(-n, -d)
    ELSE IF n > 0 THEN Inf
    ELSE IF n < 0 THEN NegInf
    ELSE NaN

\* max(0, v): v if v > 0, else the first argument
PyMax0(v) == IF v /= NaN /\ ~Leq(v, Ratio(0, 1)) THEN v ELSE Ratio(0, 1)

\* int(n / d) for d /= 0: truncation toward zero
Trunc(n, d) ==
    LET nn == IF d < 0 THEN -n ELSE n
        dd == IF d < 0 THEN -d ELSE d
    IN  IF nn >= 0 THEN nn \div dd ELSE -((-nn) \div dd)

\* 4.*4, the shift from the first nonzero bin to the baseline guess
BaselineShift == 16

\* the prior of one slot, config[indices]: the rows [value, error] of
\* baseline, gain, sigma_e and sigma_1, in whole units
PriorRows(baseline, gain, gain_err, sigma_e, sigma_1) ==
    [i \in 0..3 |->
        IF i = 0 THEN Pair(baseline, 0)
        ELSE IF i = 1 THEN Pair(gain, gain_err)
        ELSE IF i = 2 THEN Pair(sigma_e, 0)
        ELSE Pair(sigma_1, 0)]

\* the baseline of the warm start, in half units (x is in half units):
\* 0, or x[first nonzero bin] + 16, replaced by config[0, 0] - config[1, 0]/2
\* when it exceeds config[0, 0]
WarmBaseline(y, x, config) ==
    IF Cardinality(NonZero(y)) > 2
    THEN LET guess == x[Min(NonZero(y))] + 2 * BaselineShift
         IN  IF guess > 2 * config[0][0]
             THEN 2 * config[0][0] - config[1][0]
             ELSE guess
    ELSE 0

\* fit_low_light.p0_func with config: [mu, mu_xt, gain, baseline, sigma_e,
\* sigma_1, amplitude, offset]; gain, baseline and the sigmas in half units.
\* np.average(x, weights=y) raises ZeroDivisionError when the weights sum to
\* zero.
WarmP0(y, x, config) ==
    LET baseline == WarmBaseline(y, x, config)
        sum_xy   == Sum([b \in DOMAIN y |-> x[b] * y[b]])
        mean     == Div(sum_xy - baseline * Sum(y), 2 * config[1][0] * Sum(y))
    IN  IF Sum(y) = 0 THEN Raises("ZeroDivisionError")
        ELSE Returns([j \in 0..7 |->
                IF j = 0 THEN PyMax0(mean)
                ELSE IF j = 1 THEN Ratio(0, 1)
                ELSE IF j = 2 THEN Ratio(2 * config[1][0], 1)
                ELSE IF j = 3 THEN Ratio(baseline, 1)
                ELSE IF j = 4 THEN Ratio(2 * config[2][0], 1)
                ELSE IF j = 5 THEN Ratio(2 * config[3][0], 1)
                ELSE IF j = 6 THEN Ratio(Sum(y), 1)
                ELSE Ratio(0, 1)])

\* fit_low_light.bounds_func with config: (param_min, param_max), in the
\* units of WarmP0
WarmBounds(y, x, config) ==
    LET baseline == config[0]
        gain     == config[1]
        sigma_e  == config[2]
        sigma_1  == config[3]
    IN  [lower |-> [j \in 0..7 |->
            IF j = 0 THEN Ratio(0, 1)
            ELSE IF j = 1 THEN Ratio(0, 1)
            ELSE IF j = 2 THEN Ratio(2 * (gain[0] - 5 * gain[1]), 1)
            ELSE IF j = 3 THEN Ratio(2 * (baseline[0] - 2 * gain[0]), 1)
            ELSE IF j = 4 THEN Ratio(sigma_e[0], 1)
            ELSE IF j = 5 THEN Ratio(sigma_1[0], 1)
            ELSE IF j = 6 THEN Ratio(0, 1)
            ELSE NegInf],
         upper |-> [j \in 0..7 |->
            IF j = 0 THEN Inf
            ELSE IF j = 1 THEN Ratio(1, 1)
            ELSE IF j = 2 THEN Ratio(2 * (gain[0] + 5 * gain[1]), 1)
            ELSE IF j = 3 THEN Ratio(2 * (baseline[0] + 3), 1)
            ELSE IF j = 4 THEN Ratio(4 * sigma_e[0], 1)
            ELSE IF j = 5 THEN Ratio(4 * sigma_1[0], 1)
            ELSE Inf]]

\* the slot histograms and priors the strategy is called with: the bin
\* centers 0..MaxSpan in steps of one, every pattern of empty and filled
\* bins, priors around the guesses the axis can give (16 .. 16 + MaxSpan)
GuessCenters == AxisFromRange(0, MaxSpan, 1).bin_centers

GuessSpectra == [DOMAIN GuessCenters -> {0, 1}]

Priors ==
    {PriorRows(b, g, ge, se, s1) :
        b \in {0, BaselineShift, BaselineShift + 1, 2 * BaselineShift},
        g \in {0, 2, 5}, ge \in {0, 1}, se \in {0, 1}, s1 \in {0, 1}}

\* one iteration of fit with a prior calls p0_func and bound_func with the
\* data of the slot, the bin centers and config[indices]
WarmStartCall(y, config) ==
    /\ call.op = "none"
    /\ call' = [op     |-> "warm_start",
                y      |-> y,
                x      |-> GuessCenters,
                config |-> config,
                p0     |-> WarmP0(y, GuessCenters, config),
                bounds |-> WarmBounds(y, GuessCenters, config)]
    /\ UNCHANGED <<hist, files, fit, ncalls, history>>

WarmStart == \E y \in GuessSpectra, config \in Priors : WarmStartCall(y, config)

\* n_peak = 40, the number of peaks for an empty x
NPeakDefault == 40

\* the photoelectron counts fit_func sums over: range(n_peakmin, n_peak),
\* with n_peak = int(float(x[-1] - baseline) / gain * 1.5) and
\* n_peakmin = max(0, int(float(x[0] - baseline) / gain * 0.7))
PeakCounts(x, baseline, gain) ==
    LET n_peak    == IF Size(x) > 0
                     THEN Trunc(3 * (x[Size(x) - 1] - baseline), 2 * gain)
                     ELSE NPeakDefault
        trunc_min == Trunc(7 * (x[0] - baseline), 10 * gain)
        n_peakmin == IF Size(x) > 0
                     THEN (IF trunc_min > 0 THEN trunc_min ELSE 0)
                     ELSE 0
    IN  {n \in n_peakmin..(n_peak - 1) : TRUE}

\* with a gain of zero the quotient is an infinity or NaN and int() raises
\* OverflowError or ValueError; a gain that is a Python float raises
\* ZeroDivisionError
FitFuncRaises(x, baseline, gain) ==
    IF Size(x) = 0 \/ gain /= 0 THEN {"none"}
    ELSE IF x[Size(x) - 1] = baseline
    THEN {"ValueError", "ZeroDivisionError"}
    ELSE {"OverflowError", "ZeroDivisionError"}

\* the windows of the bin centers: centers[lo:hi], empty for lo = hi
Windows ==
    {[i \in 0..(hi - lo - 1) |-> GuessCenters[lo + i]] :
        lo \in 0..Size(GuessCenters), hi \in 0..Size(GuessCenters)}

\* fit_func(p, x) for p = [mu, mu_xt, gain, baseline, ..], gain and baseline
\* in half units: amplitude times the sum of one term per count in terms
FitFuncCall(x, baseline, gain) ==
    /\ call.op = "none"
    /\ \E e \in FitFuncRaises(x, baseline, gain) :
          call' = [op       |-> "fit_func",
                   x        |-> x,
                   baseline |-> baseline,
                   gain     |-> gain,
                   raised   |-> e,
                   terms    |-> IF e = "none"
                                THEN PeakCounts(x, baseline, gain) ELSE {}]
    /\ UNCHANGED <<hist, files, fit, ncalls, history>>

FitFunc ==
    \E x \in Windows, baseline \in {-3, 0, 2}, gain \in {-2, 0, 1, 2, 4} :
        FitFuncCall(x, baseline, gain)

NextGuess == WarmStart \/ FitFunc

\* one call of a charge-spectrum strategy function per run
SpecGuess == InitNoStore /\ [][NextGuess]_vars

(***************************************************************************)
(* Claims on fill, fill_with_batch and _compute_errors.                    *)
(***************************************************************************)
\* the half-unit value v lies below / above the axis of h
BelowAxis(h, v) == v < h.bin_edges[0]

AboveAxis(h, v) == v > LastEdge(h)

C2_ErrorsAlwaysCurrent == hist.errors = ComputedErrors(hist.data)

\* C2 as amended: errors is sqrt(data), with 1 where data is 0, in the state
\* right after _compute_errors and right after each fill_with_batch; fill
\* leaves errors as they were before the call.
C2_ErrorsCurrentAfterCompute ==
    [][/\ (call'.op \in {"_compute_errors", "fill_with_batch"}
            /\ call'.raised = "none")
          => \A s \in DOMAIN hist'.data : \A b \in DOMAIN hist'.data[s] :
                hist'.errors[s][b] =
                    IF hist'.data[s][b] = 0 THEN 1 ELSE hist'.data[s][b]
       /\ call'.op = "fill" => hist'.errors = hist.errors]_vars

\* errors were computed on a store with an empty bin and a bin of two counts
C2_Witness ==
    /\ call.op \in {"_compute_errors", "fill_with_batch"}
    /\ call.raised = "none"
    /\ \E s \in DOMAIN hist.data : \E b, c \in DOMAIN hist.data[s] :
          /\ hist.data[s][b] = 0 /\ hist.errors[s][b] = 1
          /\ hist.data[s][c] = 2 /\ hist.errors[s][c] = 2

\* C3: fill counts a sample below the axis in bin 0 and a sample above the
\* axis in bin N-1, and leaves underflow, overflow and errors of every slot
\* unchanged.
C3_FillFoldsIntoEdgeBins ==
    [][call'.op = "fill" =>
        /\ hist'.underflow = hist.underflow
        /\ hist'.overflow = hist.overflow
        /\ hist'.errors = hist.errors
        /\ call'.raised = "none" =>
            \A s \in Selected(call'.indices, Size(hist.data)) :
                LET j == RowOfSlot(call'.indices, s)
                    N == Size(hist.data[s])
                IN  j \in DOMAIN call'.value.a =>
                    LET v == call'.value.a[j][1]
                    IN  /\ BelowAxis(hist, v) =>
                            hist'.data[s][0] = hist.data[s][0] + 1
                        /\ AboveAxis(hist, v) =>
                            hist'.data[s][N - 1] = hist.data[s][N - 1] + 1]_vars

\* a fill has counted a sample below the axis and one above it
C3_Witness ==
    /\ call.op = "fill"
    /\ call.raised = "none"
    /\ Size(call.value.a) = 2
    /\ BelowAxis(hist, call.value.a[0][1])
    /\ AboveAxis(hist, call.value.a[1][1])
    /\ hist.data[0][0] >= 1
    /\ hist.data[1][Size(hist.data[1]) - 1] >= 1

\* the bin of a sample inside the axis: floor((v - edges[0]) / width), the
\* last edge belonging to the last bin
BinOf(h, v) ==
    LET raw == (v - h.bin_edges[0]) \div h.bin_width
    IN  IF raw > Size(h.data[0]) - 1 THEN Size(h.data[0]) - 1 ELSE raw

\* C4: in fill_with_batch a sample above the highest bin edge adds one to the
\* overflow of its slot and to no data bin of any slot; every sample inside
\* the axis range adds one to exactly one data bin of its own slot.
C4_BatchOverflowNotFolded ==
    [][(call'.op = "fill_with_batch" /\ call'.raised = "none") =>
        \A s \in DOMAIN hist.data :
            IF s \in Selected(call'.indices, Size(hist.data))
            THEN LET x == call'.batch[RowOfSlot(call'.indices, s)]
                     Over == {v \in Values(x) : AboveAxis(hist, v)}
                     High == {v \in Values(x) : v >= hist.bin_edges[1]}
                 IN  /\ hist'.overflow[s] - hist.overflow[s]
                            >= CountSeq(x, Over)
                     /\ CountSeq(x, High) = CountSeq(x, Over) =>
                            hist'.overflow[s] - hist.overflow[s]
                                = CountSeq(x, Over)
                     /\ \A b \in DOMAIN hist.data[s] :
                            LET Inside == {v \in Values(x) :
                                             /\ ~BelowAxis(hist, v)
                                             /\ ~AboveAxis(hist, v)
                                             /\ BinOf(hist, v) = b}
                            IN  hist'.data[s][b] - hist.data[s][b]
                                    = CountSeq(x, Inside)
            ELSE /\ hist'.data[s] = hist.data[s]
                 /\ hist'.overflow[s] = hist.overflow[s]]_vars

\* a batch with a sample above the highest edge and one inside the axis
C4_Witness ==
    /\ call.op = "fill_with_batch"
    /\ call.raised = "none"
    /\ \E j \in DOMAIN call.batch : \E i, k \in DOMAIN call.batch[j] :
          /\ AboveAxis(hist, call.batch[j][i])
          /\ ~AboveAxis(hist, call.batch[j][k])
          /\ ~BelowAxis(hist, call.batch[j][k])
    /\ \E s \in DOMAIN hist.overflow : hist.overflow[s] >= 1

(***************************************************************************)
(* Claims on save, load and load_fit_results.                              *)
(***************************************************************************)
\* the model identifier a store carries: the name load read, else the name
\* save writes
ModelIdentifier(h) ==
    IF h.fit_function_name = Unset THEN FitFuncName(h)
    ELSE IF h.fit_function_name = None THEN "NoneType"
    ELSE h.fit_function_name.s

\* equality of a fit field, a field that is None being equal to the
\* zero-dimensional array np.load gives back for it
SameField(x, y) == NpCopy(x) = NpCopy(y)

\* the loaded store a has the arrays and the fit fields of the saved store b
SameStore(a, b) ==
    /\ a.data = b.data
    /\ a.bin_centers = b.bin_centers
    /\ a.errors = b.errors
    /\ a.underflow = b.underflow
    /\ a.overflow = b.overflow
    /\ SameField(a.fit_result, b.fit_result)
    /\ SameField(a.fit_chi2_ndof, b.fit_chi2_ndof)
    /\ SameField(a.fit_result_label, b.fit_result_label)
    /\ ModelIdentifier(a) = FitFuncName(b)

\* C5 as stated: a save(path) that succeeded, followed by load(path) with
\* the same path, does not raise and yields the data, bin_centers, errors,
\* underflow, overflow and fit fields of the saved store.
C5_SaveThenLoadRoundTrips ==
    [][(/\ call.op = "save" /\ call.raised = "none"
        /\ call'.op = "load" /\ call'.path = call.path)
       => /\ call'.raised = "none"
          /\ SameStore(hist', hist)]_vars

\* the directory of the path exists: the working directory for a bare file
\* name, else one of the existing directories
DirExists(path) == path.dir = "" \/ path.dir \in ExistingDirs

\* C6 as stated: load and load_fit_results of a path that is no file raise
\* FileNotFoundError and leave the store unchanged; save into a directory
\* that does not exist raises FileNotFoundError and writes no file; save
\* into a directory that exists, the working directory of a bare file name
\* included, does not raise FileNotFoundError.
C6_NotFoundOnlyForMissingPaths ==
    [][/\ (call'.op \in {"load", "load_fit_results"}
            /\ ~IsFile(files, call'.path))
          => (call'.raised = "FileNotFoundError" /\ hist' = hist)
       /\ (call'.op = "save" /\ ~DirExists(call'.path))
          => (call'.raised = "FileNotFoundError" /\ files' = files)
       /\ (call'.op = "save" /\ DirExists(call'.path))
          => call'.raised /= "FileNotFoundError"]_vars

(***************************************************************************)
(* Claims on fit.                                                          *)
(***************************************************************************)
AllZero(h, s) == \A b \in DOMAIN h.data[s] : h.data[s][b] = 0

AllNaN(rows) == \A j \in DOMAIN rows : rows[j][0] = NaN /\ rows[j][1] = NaN

\* C7 as stated: a fit with the charge-spectrum strategy does not raise, and
\* when it has returned every all-zero slot of the slot list has a fit_result
\* of NaN and a chi2 of NaN.
C7_AllZeroSlotYieldsNaN ==
    (fit.pc /= "idle" /\ fit.args.strategy.kind = "low_light") =>
        /\ fit.pc /= "raised"
        /\ fit.pc = "done" =>
            \A s \in Values(fit.indices_list) : AllZero(hist, s) =>
                /\ AllNaN(hist.fit_result.a[s])
                /\ hist.fit_chi2_ndof.a[s][0] = NaN

\* C8 as stated: when the objective, the guess, the slice or the bounds
\* function raises for slot k, fit does not raise; when it has returned,
\* slot k's fit_result is NaN and every slot of the list was written.
C8_SlotFailuresAreLocal ==
    (/\ fit.pc /= "idle"
     /\ fit.args.strategy.kind = "generic"
     /\ fit.args.strategy.fault.which
            \in {"guess", "slice", "bounds", "objective"}) =>
        /\ fit.pc /= "raised"
        /\ fit.pc = "done" =>
            /\ fit.done = fit.indices_list
            /\ AllNaN(hist.fit_result.a[fit.args.strategy.fault.slot])

Rectangular(fr) == \A s, t \in DOMAIN fr : Size(fr[s]) = Size(fr[t])

\* C9: after every iteration of fit, fit_result has one block of rows per
\* slot, all of one length P; for every slot fit so far P is at least its
\* parameter count, its first rows are the rows its own fit returned and
\* its further rows are zero.
C9_FitResultRectangular ==
    (fit.pc \in {"loop", "done"} /\ Len(fit.done) > 0) =>
        /\ hist.fit_result.kind = "ndarray"
        /\ hist.fit_result.shape = "array"
        /\ DOMAIN hist.fit_result.a = DOMAIN hist.data
        /\ Rectangular(hist.fit_result.a)
        /\ \A s \in Values(fit.done) :
              LET own  == fit.returned[s].fit_result
                  rows == hist.fit_result.a[s]
              IN  /\ Size(rows) >= Size(own)
                  /\ fit.args.strategy.kind = "generic" =>
                        Size(rows) >= fit.args.strategy.plen[s]
                  /\ \A j \in DOMAIN rows :
                        rows[j] = IF j < Size(own) THEN own[j]
                                  ELSE Pair(Num(0), Num(0))

\* slot 0 was fit with 6 parameters, then slot 1 with 8: slot 0 holds its 6
\* rows and two rows of zeros, slot 1 its 8 rows
C9_Witness ==
    /\ fit.pc = "done"
    /\ fit.done = <<0, 1>>
    /\ fit.args.strategy.kind = "generic"
    /\ fit.args.strategy.plen[0] = 6
    /\ fit.args.strategy.plen[1] = 8
    /\ Size(hist.fit_result.a[0]) = 8
    /\ hist.fit_result.a[0][0] = Pair(Opt(0, 0), Err(0, 0))
    /\ hist.fit_result.a[0][6] = Pair(Num(0), Num(0))
    /\ hist.fit_result.a[1][7] = Pair(Opt(1, 7), Err(1, 7))

\* C10 as stated: with fixed parameters, in any order, fit does not raise;
\* the result of a slot has one row per parameter of p0, [fixed value, 0] at
\* every fixed index and the row of every free parameter at its own index;
\* the optimizer receives the free parameters in their order and the
\* objective the full vector with the fixed values at their indices.
C10_FixedRowsAtTheirIndices ==
    (/\ fit.pc /= "idle"
     /\ Len(fit.args.fixed_param) > 0
     /\ fit.args.config = Prior) =>
        /\ fit.pc /= "raised"
        /\ \A s \in Values(fit.done) :
              LET ax    == fit.returned[s]
                  n     == fit.args.strategy.plen[s]
                  p0    == [j \in 0..(n - 1) |-> Token("p0", j)]
                  fixed == ListFixedParam(fit.args.fixed_param,
                                          fit.args.config, s).v
              IN  /\ Size(ax.fit_result) = n
                  /\ \A k \in 1..Len(fixed.idx) :
                        /\ ax.fit_result[fixed.idx[k]]
                              = Pair(fixed.val[k], Num(0))
                        /\ ax.objective[fixed.idx[k] + 1] = fixed.val[k]
                  /\ Size(ax.x0) = n - Len(fixed.idx)
                  /\ \A j \in DOMAIN ax.x0 :
                        /\ ax.x0[j] = p0[FreeIndex(p0, fixed, j)]
                        /\ ax.fit_result[FreeIndex(p0, fixed, j)]
                              = ax.free_rows[j]
                        /\ ax.objective[FreeIndex(p0, fixed, j) + 1]
                              = ax.x0[j]

(***************************************************************************)
(* Claims on the axis built by the constructor.                            *)
(***************************************************************************)
\* the constructor was called with a range and has built the store
Constructed ==
    /\ call.op = "__init__"
    /\ "bin_width" \in DOMAIN call
    /\ call.raised = "none"

\* C11: for bin_width > 0 and bin_center_max >= bin_center_min the
\* constructor builds an axis with one center less than edges, consecutive
\* edges bin_width apart and every center midway between its two edges.
C11_AxisEvenlySpaced ==
    (call.op = "__init__" /\ "bin_width" \in DOMAIN call
        /\ call.bin_width > 0) =>
        /\ call.raised = "none"
        /\ hist.bin_width = 2 * call.bin_width
        /\ Size(hist.bin_centers) = Size(hist.bin_edges) - 1
        /\ \A i \in DOMAIN hist.bin_centers :
              /\ hist.bin_edges[i + 1] - hist.bin_edges[i] = hist.bin_width
              /\ 2 * hist.bin_centers[i]
                    = hist.bin_edges[i] + hist.bin_edges[i + 1]

\* an axis of width 3 over a span of 5, no multiple of 3: two bins, three edges
C11_Witness ==
    /\ Constructed
    /\ call.bin_width = 3
    /\ call.bin_center_max - call.bin_center_min = 5
    /\ Size(hist.bin_centers) = 2
    /\ Size(hist.bin_edges) = 3

\* C12 as stated: a constructor call with bin_width <= 0 fails and leaves no
\* store.
C12_NonPositiveWidthRejected ==
    (call.op = "__init__" /\ "bin_width" \in DOMAIN call
        /\ call.bin_width <= 0) =>
        /\ call.raised /= "none"
        /\ hist = Unset

\* C17 as stated: for bin_width > 0 the edges run from
\* bin_center_min - bin_width/2 up to (excluding)
\* bin_center_max + bin_width/2 + bin_width, the centers from bin_center_min
\* up to (excluding) bin_center_max + bin_width, in steps of bin_width, and
\* bin_center_max is not above the last edge.
C17_AxisReachesCenterMax ==
    (Constructed /\ call.bin_width > 0) =>
        /\ hist.bin_edges
              = Arange(2 * call.bin_center_min - call.bin_width,
                       2 * call.bin_center_max + call.bin_width
                            + 2 * call.bin_width,
                       2 * call.bin_width)
        /\ hist.bin_centers
              = Arange(2 * call.bin_center_min,
                       2 * call.bin_center_max + 2 * call.bin_width,
                       2 * call.bin_width)
        /\ 2 * call.bin_center_max <= LastEdge(hist)

(***************************************************************************)
(* Claims on slots fit concurrently.                                       *)
(***************************************************************************)
\* every thread has ended, by finishing its iteration or by an exception
ThreadsEnded ==
    /\ fit.pc = "threads"
    /\ \A s \in ParSlots : fit.threads[s].pc \in {"done", "raised"}

\* slot s holds the rows and the chi2, ndof its own _axis_fit returned, the
\* rows followed by zero rows up to the length of the array
HoldsOwnResult(s) ==
    LET own  == fit.returned[s].fit_result
        rows == hist.fit_result.a[s]
    IN  /\ fit.threads[s].pc = "done"
        /\ Size(rows) >= Size(own)
        /\ \A j \in DOMAIN rows :
              rows[j] = IF j < Size(own) THEN own[j]
                        ELSE Pair(Num(0), Num(0))
        /\ hist.fit_chi2_ndof.a[s]
              = Pair(fit.returned[s].chi2, fit.returned[s].ndof)

\* C13 as stated: when the slots of a store are fit by concurrent threads
\* without a lock, in every interleaving each slot ends up with the result
\* of its own fit.
C13_NoWriteLost ==
    ThreadsEnded => \A s \in ParSlots : HoldsOwnResult(s)

\* C13 as amended: the same, for a store whose fit_result and fit_chi2_ndof
\* are allocated before the threads start, with at least as many rows as
\* the parameter count of every slot.
C13_NoWriteLostWhenAllocated ==
    (ThreadsEnded /\ fit.wide) => \A s \in ParSlots : HoldsOwnResult(s)

\* two threads have ended on a store allocated with 8 rows, slot 0 fit with
\* 6 and slot 1 with 8 parameters, both converged
C13_Witness ==
    /\ ThreadsEnded
    /\ fit.wide
    /\ fit.args.strategy.plen[0] = 6
    /\ fit.args.strategy.plen[1] = 8
    /\ hist.fit_result.a[0][0] = Pair(Opt(0, 0), Err(0, 0))
    /\ hist.fit_result.a[0][7] = Pair(Num(0), Num(0))
    /\ hist.fit_result.a[1][7] = Pair(Opt(1, 7), Err(1, 7))

(***************************************************************************)
(* Further claims on fit and fill_with_batch.                              *)
(***************************************************************************)
\* C14: no step of fit, whatever the outcome of the slot, changes data,
\* errors, underflow, overflow, bin_centers, bin_edges or bin_width, and
\* fit_result and fit_chi2_ndof, once allocated, have one entry per slot of
\* data.
C14_FitChangesOnlyFitFields ==
    [][/\ hist'.data = hist.data
       /\ hist'.errors = hist.errors
       /\ hist'.underflow = hist.underflow
       /\ hist'.overflow = hist.overflow
       /\ hist'.bin_centers = hist.bin_centers
       /\ hist'.bin_edges = hist.bin_edges
       /\ hist'.bin_width = hist.bin_width
       /\ ~NeedsAllocation(hist'.fit_result) =>
             DOMAIN hist'.fit_result.a = DOMAIN hist.data
       /\ ~NeedsAllocation(hist'.fit_chi2_ndof) =>
             DOMAIN hist'.fit_chi2_ndof.a = DOMAIN hist.data]_vars

\* a fit of two filled slots has returned and has written its results
C14_Witness ==
    /\ fit.pc = "done"
    /\ fit.done = <<0, 1>>
    /\ hist.fit_function = Function("generic")
    /\ hist.fit_result.a[1][0] = Pair(Opt(1, 0), Err(1, 0))
    /\ hist.fit_chi2_ndof.a[1][0] = Chi2(1)
    /\ \A s \in DOMAIN hist.data : ~AllZero(hist, s)
    /\ hist.errors = ComputedErrors(hist.data)

\* C15: fill_with_batch adds to the overflow of a slot the number of the
\* slot's samples at or above the second bin edge, so that a sample inside
\* the axis at or above bin_edges[1] is counted in its data bin and in
\* overflow.
C15_OverflowFromSecondEdge ==
    [][(call'.op = "fill_with_batch" /\ call'.raised = "none") =>
        \A s \in Selected(call'.indices, Size(hist.data)) :
            LET x    == call'.batch[RowOfSlot(call'.indices, s)]
                High == {v \in Values(x) : v >= hist.bin_edges[1]}
            IN  /\ hist'.overflow[s] - hist.overflow[s] = CountSeq(x, High)
                /\ \A v \in High : ~AboveAxis(hist, v) =>
                      hist'.data[s][BinOf(hist, v)]
                          >= hist.data[s][BinOf(hist, v)] + 1]_vars

\* a batch whose sample lies on the last edge: inside the axis, counted in
\* the last bin and in overflow
C15_Witness ==
    /\ call.op = "fill_with_batch"
    /\ call.raised = "none"
    /\ call.batch[0] = <<LastEdge(hist)>>
    /\ call.indices = NoIndices
    /\ hist.overflow[0] >= 1
    /\ hist.data[0][Size(hist.data[0]) - 1] >= 1

\* C16 as stated: fill_with_batch adds to the underflow of a slot the number
\* of the slot's samples strictly below the first bin edge; a sample on the
\* first edge is counted in bin 0 and not in underflow.
C16_UnderflowStrictlyBelow ==
    [][(call'.op = "fill_with_batch" /\ call'.raised = "none") =>
        \A s \in Selected(call'.indices, Size(hist.data)) :
            LET x   == call'.batch[RowOfSlot(call'.indices, s)]
                Low == {v \in Values(x) : v < hist.bin_edges[0]}
                On  == {v \in Values(x) : v = hist.bin_edges[0]}
            IN  /\ hist'.underflow[s] - hist.underflow[s] = CountSeq(x, Low)
                /\ hist'.data[s][0] - hist.data[s][0] >= CountSeq(x, On)]_vars

\* C18 as stated: fit takes the slots one by one, in row-major order or in
\* the order of limited_indices, has written the result of a slot before it
\* starts the next, adds one to its counter per slot and never lowers it,
\* and ends with the counter at the number of enumerated slots, every slot
\* done.
C18_EverySlotOnceInOrder ==
    [][fit'.pc \in {"loop", "done", "raised"} =>
        /\ Len(fit'.done) <= Len(fit'.indices_list)
        /\ \A i \in 1..Len(fit'.done) :
              fit'.done[i] =
                  IF Len(fit'.args.limited_indices) > 0
                  THEN fit'.args.limited_indices[i] ELSE i - 1
        /\ \A s \in Values(fit'.done) :
              \A j \in DOMAIN fit'.returned[s].fit_result :
                  hist'.fit_result.a[s][j] = fit'.returned[s].fit_result[j]
        /\ fit.pc = "loop" =>
              /\ fit'.count >= fit.count
              /\ fit'.count <= fit.count + 1
              /\ Len(fit'.done) > Len(fit.done) => fit'.count = fit.count + 1
        /\ fit'.pc \in {"done", "raised"} =>
              /\ fit'.count = Len(fit'.indices_list)
              /\ fit'.done = fit'.indices_list
              /\ Len(fit'.args.limited_indices) = 0 =>
                    Len(fit'.done) = Size(hist'.data)]_vars

\* the window of a slot selects no bin, or its guess or bounds hold a NaN
Degenerate(ax, n) ==
    \/ WindowBins(ax.slice_list, n) = {}
    \/ HasNaN(ax.p0)
    \/ HasNaN(ax.bounds.lower)
    \/ HasNaN(ax.bounds.upper)

\* C19 as stated: for a slot whose window selects no bin, or whose guess or
\* bounds hold a NaN, the optimizer is not run, the rows of the free
\* parameters are NaN, chi2 is NaN and ndof is the number of bins of the
\* window minus the number of free parameters.
C19_DegenerateInputsNotFit ==
    fit.pc \in {"loop", "done", "raised"} =>
        \A s \in Values(fit.done) :
            LET ax == fit.returned[s]
                n  == Size(hist.bin_centers)
            IN  Degenerate(ax, n) =>
                    /\ ~ax.optimized
                    /\ AllNaN(ax.free_rows)
                    /\ ax.chi2 = NaN
                    /\ ax.ndof = Num(Cardinality(WindowBins(ax.slice_list, n))
                                     - Size(ax.x0))

\* C20 as stated: with the charge-spectrum strategy the optimizer is handed
\* the bins from the first nonzero bin of the slot through the last one,
\* the last one included; one bin for a slot with a single nonzero bin.
C20_WindowHoldsLastNonZeroBin ==
    (fit.pc \in {"loop", "done", "raised"}
        /\ fit.args.strategy.kind = "low_light") =>
        \A s \in Values(fit.done) :
            LET ax == fit.returned[s]
            IN  /\ ax.optimized
                /\ WindowBins(ax.slice_list, Size(hist.bin_centers))
                      = Min(NonZero(hist.data[s]))..Max(NonZero(hist.data[s]))

(***************************************************************************)
(* Claims on the fit-only load.                                            *)
(***************************************************************************)
\* the fields load_fit_results does not assign
BodyFields ==
    {"bin_width", "bin_edges", "bin_centers", "data", "underflow",
     "overflow", "errors", "fit_function", "xlabel", "ylabel", "label"}

\* C21: load_fit_results assigns fit_result, fit_function_name,
\* fit_chi2_ndof, fit_axis and fit_result_label from the archive and leaves
\* every other field of the store as it was, data, errors, underflow,
\* overflow and the bin axis included; a store opened with fit_only has none
\* of these other fields; a call that raises changes nothing.
C21_FitOnlyLoadLeavesBody ==
    [][/\ (call'.op = "load_fit_results" /\ call'.raised = "none")
          => /\ \A f \in BodyFields : hist'[f] = hist[f]
             /\ hist'.fit_result = NpCopy(files[call'.path].fit_result)
             /\ hist'.fit_chi2_ndof = NpCopy(files[call'.path].fit_chi2_ndof)
             /\ hist'.fit_axis = NpCopy(files[call'.path].fit_axis)
             /\ hist'.fit_result_label
                    = NpCopy(files[call'.path].fit_result_label)
             /\ hist'.fit_function_name
                    = LoadedFitFuncName(files[call'.path])
       /\ (call'.op = "load_fit_results" /\ call'.raised /= "none")
          => hist' = hist
       /\ (/\ call'.op = "__init__" /\ "fit_only" \in DOMAIN call'
           /\ call'.raised = "none")
          => /\ \A f \in BodyFields : hist'[f] = Unset
             /\ hist'.fit_result = NpCopy(files[call'.path].fit_result)]_vars

\* a store with data of its own has loaded the fit fields of an archive
\* that holds other data and a fit result
C21_Witness ==
    /\ call.op = "load_fit_results"
    /\ call.raised = "none"
    /\ files[call.path].data /= hist.data
    /\ files[call.path].errors /= hist.errors
    /\ \E s \in DOMAIN hist.data : \E b \in DOMAIN hist.data[s] :
          hist.data[s][b] > 0
    /\ hist.fit_result.kind = "ndarray"
    /\ hist.fit_result.shape = "array"
    /\ hist.fit_result = files[call.path].fit_result

(***************************************************************************)
(* Claims on the slots a fit does not reach and on repeated fits.          *)
(***************************************************************************)
\* fit_result and fit_chi2_ndof are allocated arrays
Allocated(h) ==
    /\ h.fit_result.kind = "ndarray" /\ h.fit_result.shape = "array"
    /\ h.fit_chi2_ndof.kind = "ndarray" /\ h.fit_chi2_ndof.shape = "array"

\* the slots no iteration of this call or of an earlier call has written
NotFit ==
    DOMAIN hist.data \ (history.fitted \cup Values(fit.done))

\* rows of NaN, followed by rows of zeros
NaNThenZero(rows) ==
    \E k \in 1..Size(rows) :
        \A j \in DOMAIN rows :
            rows[j] = IF j < k THEN Pair(NaN, NaN) ELSE Pair(Num(0), Num(0))

\* C25 as stated: during and after fit every slot that has not been fit
\* holds NaN in every row of its fit_result and in both entries of its
\* fit_chi2_ndof, also after the array was padded for another slot.
C25_UnfitSlotsAllNaN ==
    (fit.pc /= "idle" /\ Allocated(hist)) =>
        \A s \in NotFit :
            /\ AllNaN(hist.fit_result.a[s])
            /\ hist.fit_chi2_ndof.a[s] = Pair(NaN, NaN)

\* C25 amended: during and after fit every slot that has not been fit holds
\* NaN in both entries of its fit_chi2_ndof and, in its fit_result, NaN in
\* the rows the array was allocated with, followed by zero in the rows that
\* were appended when the array was padded for another slot.
C25_UnfitSlotsNaNThenPadding ==
    (fit.pc /= "idle" /\ Allocated(hist)) =>
        \A s \in NotFit :
            /\ NaNThenZero(hist.fit_result.a[s])
            /\ hist.fit_chi2_ndof.a[s] = Pair(NaN, NaN)

\* the first fit of a three-slot store has fit slot 0 with 6 and slot 1 with
\* 8 parameters; slot 2, not reached yet, holds 6 rows of NaN and the 2 rows
\* of zeros of the padding
C25_Witness ==
    /\ fit.pc = "loop"
    /\ history.fit_result = None
    /\ fit.done = <<0, 1>>
    /\ NotFit = {2}
    /\ Size(hist.fit_result.a[2]) = 8
    /\ \A j \in 0..5 : hist.fit_result.a[2][j] = Pair(NaN, NaN)
    /\ \A j \in 6..7 : hist.fit_result.a[2][j] = Pair(Num(0), Num(0))
    /\ hist.fit_chi2_ndof.a[2] = Pair(NaN, NaN)

\* the slots outside the slot list hold what they held before the call,
\* followed by rows of zeros
KeptOutside(h, frame) ==
    \A t \in DOMAIN h.data \ Values(frame.indices_list) :
        /\ h.fit_chi2_ndof.a[t] = history.fit_chi2_ndof.a[t]
        /\ Size(h.fit_result.a[t]) >= Size(history.fit_result.a[t])
        /\ \A j \in DOMAIN h.fit_result.a[t] :
              h.fit_result.a[t][j] =
                  IF j < Size(history.fit_result.a[t])
                  THEN history.fit_result.a[t][j]
                  ELSE Pair(Num(0), Num(0))

\* C26: on a store that holds the results of an earlier fit, every step of
\* fit leaves the slots outside the slot list with the fit_chi2_ndof and the
\* fit_result rows they had before the call, zero rows being appended at
\* most; and no step makes the parameter axis of fit_result shorter, neither
\* than it was before the step nor than it was before the call.
C26_RefitKeepsOtherSlots ==
    [][(/\ fit'.pc /= "idle"
        /\ Allocated([fit_result    |-> history.fit_result,
                      fit_chi2_ndof |-> history.fit_chi2_ndof]))
       => /\ Allocated(hist')
          /\ KeptOutside(hist', fit')
          /\ \A t \in DOMAIN hist.data :
                /\ Size(hist'.fit_result.a[t]) >= Size(hist.fit_result.a[t])
                /\ Size(hist'.fit_result.a[t])
                      >= Size(history.fit_result.a[t])]_vars

\* a store fit before with 6 parameters in every slot was fit again in its
\* last slot alone, with 8 parameters: slot 0 holds its 6 earlier rows and
\* two rows of zeros
C26_Witness ==
    /\ fit.pc = "done"
    /\ fit.args.limited_indices = <<Size(hist.data) - 1>>
    /\ history.fitted = DOMAIN hist.data
    /\ Size(history.fit_result.a[0]) = 6
    /\ Size(hist.fit_result.a[0]) = 8
    /\ hist.fit_result.a[0][0] = Pair(Opt(-1, 0), Err(-1, 0))
    /\ hist.fit_result.a[0][5] = history.fit_result.a[0][5]
    /\ hist.fit_result.a[0][7] = Pair(Num(0), Num(0))
    /\ hist.fit_chi2_ndof.a[0] = history.fit_chi2_ndof.a[0]

\* C28 as stated: a fit on a store loaded from an archive saved before any
\* fit does not take the loaded fit fields for results; its first iteration
\* allocates fit_result with one block of P rows of NaN per slot and
\* fit_chi2_ndof with [NaN, NaN] per slot, and the fit then writes the
\* result of every slot of its slot list.
C28_FitAfterLoadAllocates ==
    (history.fit_result = NoneArray /\ fit.pc /= "idle") =>
        /\ fit.pc /= "raised"
        /\ Len(fit.done) >= 1 =>
              /\ Allocated(hist)
              /\ DOMAIN hist.fit_result.a = DOMAIN hist.data
              /\ DOMAIN hist.fit_chi2_ndof.a = DOMAIN hist.data
        /\ Len(fit.done) = 1 =>
              \A t \in DOMAIN hist.data \ {fit.done[1]} :
                  /\ hist.fit_result.a[t]
                        = NaNRows(Size(fit.returned[fit.done[1]].p0))
                  /\ hist.fit_chi2_ndof.a[t] = Pair(NaN, NaN)
        /\ fit.pc = "done" =>
              /\ fit.done = fit.indices_list
              /\ \A s \in Values(fit.done) :
                    /\ hist.fit_result.a[s]
                          = PadRows(fit.returned[s].fit_result,
                                    Size(hist.fit_result.a[s]))
                    /\ hist.fit_chi2_ndof.a[s]
                          = Pair(fit.returned[s].chi2, fit.returned[s].ndof)

(***************************************************************************)
(* Claims on the charge-spectrum strategy.                                 *)
(***************************************************************************)
\* C22 as stated: with a prior, the baseline of the guess is at most the
\* prior's baseline minus half the prior's gain, for every slot histogram.
C22_WarmBaselineClamped ==
    (call.op = "warm_start" /\ call.p0.raised = "none") =>
        Leq(call.p0.v[3],
            Ratio(2 * call.config[0][0] - call.config[1][0], 1))

\* C23 as stated: fit_func sums over exactly the integers n with
\* max(0, floor((x_min - baseline) / gain * 0.7)) <= n
\* <= ceil((x_max - baseline) / gain * 1.5), x_min and x_max being the first
\* and the last bin center of the window.
C23_SumsOverStatedRange ==
    (/\ call.op = "fit_func" /\ call.raised = "none"
     /\ Size(call.x) > 0 /\ call.gain > 0) =>
        LET d_min == call.x[0] - call.baseline
            d_max == call.x[Size(call.x) - 1] - call.baseline
            floor_min == (7 * d_min) \div (10 * call.gain)
            lowest  == IF floor_min > 0 THEN floor_min ELSE 0
            highest == CeilDiv(3 * d_max, 2 * call.gain)
        IN  call.terms = {n \in 0..(3 * (2 * MaxSpan + 3) + NPeakDefault) :
                            lowest <= n /\ n <= highest}

\* C27 as stated: with a prior of non-negative gain, noise terms and gain
\* uncertainty and a slot histogram with a nonzero bin, every component of
\* the guess lies within the bounds: lower[i] <= p0[i] <= upper[i].
C27_WarmGuessWithinBounds ==
    (/\ call.op = "warm_start"
     /\ call.p0.raised = "none"
     /\ NonZero(call.y) /= {}
     /\ \A i \in 1..3 : call.config[i][0] >= 0
     /\ call.config[1][1] >= 0) =>
        \A j \in 0..7 :
            /\ Leq(call.bounds.lower[j], call.p0.v[j])
            /\ Leq(call.p0.v[j], call.bounds.upper[j])

(***************************************************************************)
(* Claims on the data-treatment runs.                                      *)
(***************************************************************************)
\* C24 as stated: in synch_hist.run and in dark_hist.run ('raw' and
\* 'integral') the errors are recomputed after the last fill: once the loop
\* over the events has ended with at least one event filled, and at the
\* moment the store is saved and when the run returns, errors is sqrt(data)
\* with floor 1, and every archive the run saved holds such errors.
C24_RunsRecomputeErrors ==
    (/\ call.op = "run"
     /\ call.hist_type /= "other"
     /\ call.filled > 0
     /\ call.pc \in {"save", "returned", "raised"}) =>
        /\ hist.errors = ComputedErrors(hist.data)
        /\ \A q \in DOMAIN files :
              files[q].errors = ComputedErrors(files[q].data)

====
